---- MODULE Spec2Model ----
(***************************************************************************)
(* A model of super-happy-fuzz-time: the parser (libshft/src/parse.rs),    *)
(* the copy-on-write FuzzFile, its mutators, the serializer and the        *)
(* fuzz_one driver (libshft/src/fuzz.rs).                                   *)
(*                                                                         *)
(* Bytes are one-character strings, byte slices are sequences of bytes.    *)
(* NodeRef and RangeRef keep the source's 0-based values; At(s, i) reads   *)
(* the arena entry the source writes s[i].                                 *)
(***************************************************************************)
EXTENDS Integers, Sequences, FiniteSets, TLC

VARIABLES
    grammar,     \* Grammar: [defs, whitespace]
    buf,         \* the input buffer handed to slurp
    config,      \* FuzzConfig: [max_mutations, max_duplications, valid_actions, all_delims]
    pc,          \* position of the program
    remainder,   \* slurp: the unparsed rest of buf
    builder,     \* slurp: TreeBuilder [root, nodes, ranges, stack]
    steps,       \* slurp: iterations of the while loop taken so far
    parsed,      \* ParsedFile [root, nodes, ranges]
    ff,          \* FuzzFile [root, nodes, ranges, owned]
    iter,        \* fuzz_one: iterations of the for loop taken so far
    did_mutate,  \* fuzz_one: the local of that name
    rets,        \* history: the value each iteration of fuzz_one's loop or-ed in
    lastOp,      \* history: the Mutation the last iteration chose ("-": none)
    result,      \* fuzz_one's return value: "Some", "None"; "Pending" before it returns
    out,         \* the sink the driver serialized the variant into
    harness,     \* the harness: its statics GRAMMAR, PARSED_FILE and RNG, the
                 \* arguments and return values of afl_parse_one and afl_fuzz_one
    output       \* output.rs: [pattern, value, result, path] of an OutputPattern

vars == <<grammar, buf, config, pc, remainder, builder, steps, parsed, ff,
          iter, did_mutate, rets, lastOp, result, out, harness, output>>


(***************************************************************************)
(* Bounds of the model.                                                    *)
(***************************************************************************)
MaxLen == 4            \* longest input buffer of SpecParse
MaxMutations == 3      \* largest max_mutations of a FuzzConfig
MaxDuplications == 3   \* largest max_duplications of a FuzzConfig
MaxRangeLen == 4       \* duplicate_range is not taken beyond this range length
MaxCap == 4            \* largest capacity of a slice sink
MaxPath == 4           \* longest output pattern drawn from PathChars

Bytes == {"a", "<", ">", " ", ";"}

\* Option: None is the empty tuple, Some(x) the tuple of x
None == <<>>

Some(x) == <<x>>

NoMatch == [kind |-> "NoMatch"]

Min(a, b) == IF a < b THEN a ELSE b

\* s[i] of the source, i counted from 0
At(s, i) == s[i + 1]

\* s[i..] of the source
From(s, i) == SubSeq(s, i + 1, Len(s))

\* s[..i] of the source
Upto(s, i) == SubSeq(s, 1, i)

\* slice::starts_with
StartsWith(s, p) == Len(p) <= Len(s) /\ SubSeq(s, 1, Len(p)) = p

(***************************************************************************)
(* grammar.rs                                                              *)
(***************************************************************************)
DefDelim(start_pattern, end_pattern) ==
    [kind |-> "Delim", start |-> start_pattern, end |-> end_pattern]

DefTokenizer(pattern) == [kind |-> "Tokenizer", start |-> pattern, end |-> <<>>]

DefBreaker(pattern) == [kind |-> "Breaker", start |-> pattern, end |-> <<>>]

Delim(start_pattern, end_pattern) ==
    [start_pattern |-> start_pattern, end_pattern |-> end_pattern]

\* Grammar::new
GrammarNew(defs, whitespace) == [defs |-> defs, whitespace |-> whitespace]

\* The rule list of a grammar file: delimiters, then whitespace, then breaks.
GrammarFromLists(delims, whitespace, breaks) ==
    GrammarNew([i \in 1..Len(delims) |-> DefDelim(delims[i][1], delims[i][2])]
                 \o [i \in 1..Len(whitespace) |-> DefTokenizer(whitespace[i])]
                 \o [i \in 1..Len(breaks) |-> DefBreaker(breaks[i])],
               whitespace)

\* Grammar::from_path on a grammar file with these lists: the delimiters and
\* then the breaks go into defs, the whitespace patterns into whitespace.
Grammar_from_path(delims, breaks, whitespace) ==
    GrammarNew([i \in 1..Len(delims) |-> DefDelim(delims[i][1], delims[i][2])]
                 \o [i \in 1..Len(breaks) |-> DefBreaker(breaks[i])],
               whitespace)

RECURSIVE DelimsOf(_)
DelimsOf(defs) ==
    IF defs = <<>> THEN <<>>
    ELSE IF Head(defs).kind = "Delim"
         THEN <<Delim(Head(defs).start, Head(defs).end)>> \o DelimsOf(Tail(defs))
         ELSE DelimsOf(Tail(defs))

\* Grammar::delims
GrammarDelims(g) == DelimsOf(g.defs)

(***************************************************************************)
(* parse.rs: nodes, the tree builder, scan_next, slurp                     *)
(***************************************************************************)
NodeDelim(open, rangeref, close) ==
    [tag |-> "Delim", open |-> open, range |-> rangeref, close |-> close]

NodeRange(rangeref) == [tag |-> "Range", range |-> rangeref]

NodeToken(bytes) == [tag |-> "Token", bytes |-> bytes]

SlurpStateNew(start_pattern, end_pattern) ==
    [start_pattern |-> start_pattern, end_pattern |-> end_pattern, range |-> <<>>]

TreeBuilderNew == [root |-> <<>>, nodes |-> <<>>, ranges |-> <<>>, stack |-> <<>>]

\* TreeBuilder::add_node_ref
add_node_ref(b, noderef) ==
    IF b.stack = <<>>
    THEN [b EXCEPT !.root = Append(@, noderef)]
    ELSE [b EXCEPT !.stack[Len(b.stack)].range = Append(@, noderef)]

\* TreeBuilder::push_node; the NodeRef it returns is Len(b.nodes)
push_node(b, node) == [b EXCEPT !.nodes = Append(@, node)]

\* push_token without the test for an empty slice
push_token_unconditional(b, bytes) ==
    LET noderef == Len(b.nodes)
        b1 == push_node(b, NodeToken(bytes))
    IN  IF b1.stack # <<>>
        THEN [b1 EXCEPT !.stack[Len(b1.stack)].range = Append(@, noderef)]
        ELSE [b1 EXCEPT !.root = Append(@, noderef)]

\* TreeBuilder::push_token
push_token(b, bytes) ==
    IF bytes # <<>>
    THEN LET noderef == Len(b.nodes)
             b1 == push_node(b, NodeToken(bytes))
         IN  IF b1.stack # <<>>
             THEN [b1 EXCEPT !.stack[Len(b1.stack)].range = Append(@, noderef)]
             ELSE [b1 EXCEPT !.root = Append(@, noderef)]
    ELSE b

\* TreeBuilder::push_range; the RangeRef it returns is Len(b.ranges)
push_range(b, range) == [b EXCEPT !.ranges = Append(@, range)]

\* TreeBuilder::start_recurse
start_recurse(b, start_pattern, end_pattern) ==
    [b EXCEPT !.stack = Append(@, SlurpStateNew(start_pattern, end_pattern))]

\* TreeBuilder::state_with_end_pattern: does it pop the top frame?
state_with_end_pattern(b, end_pattern) ==
    IF b.stack = <<>>
    THEN FALSE
    ELSE b.stack[Len(b.stack)].end_pattern = end_pattern

\* TreeBuilder::end_recurse
end_recurse(b, end_pattern) ==
    IF state_with_end_pattern(b, end_pattern)
    THEN LET state == b.stack[Len(b.stack)]
             b1 == [b EXCEPT !.stack = SubSeq(@, 1, Len(@) - 1)]
             rangeref == Len(b1.ranges)
             b2 == push_range(b1, state.range)
             noderef == Len(b2.nodes)
             b3 == push_node(b2, NodeDelim(state.start_pattern, rangeref, end_pattern))
         IN  add_node_ref(b3, noderef)
    ELSE push_token(b, end_pattern)

RECURSIVE AddNodeRefs(_, _)
AddNodeRefs(b, range) ==
    IF range = <<>> THEN b ELSE AddNodeRefs(add_node_ref(b, Head(range)), Tail(range))

\* finish as it would be if it re-attached the children of an unterminated
\* frame without emitting the frame's open pattern
RECURSIVE finish_drops_open(_)
finish_drops_open(b) ==
    IF b.stack = <<>>
    THEN b
    ELSE LET state == b.stack[Len(b.stack)]
             b1 == [b EXCEPT !.stack = SubSeq(@, 1, Len(@) - 1)]
         IN  finish_drops_open(AddNodeRefs(b1, state.range))

\* finish as it would be if it re-attached the children of an unterminated
\* frame before emitting the frame's open pattern
RECURSIVE finish_children_first(_)
finish_children_first(b) ==
    IF b.stack = <<>>
    THEN b
    ELSE LET state == b.stack[Len(b.stack)]
             b1 == [b EXCEPT !.stack = SubSeq(@, 1, Len(@) - 1)]
             b2 == AddNodeRefs(b1, state.range)
         IN  finish_children_first(push_token(b2, state.start_pattern))

\* TreeBuilder::finish
RECURSIVE finish(_)
finish(b) ==
    IF b.stack = <<>>
    THEN b
    ELSE LET state == b.stack[Len(b.stack)]
             b1 == [b EXCEPT !.stack = SubSeq(@, 1, Len(@) - 1)]
             b2 == push_token(b1, state.start_pattern)
         IN  finish(AddNodeRefs(b2, state.range))

MatchBreak(token, rest) == [kind |-> "Break", prefix |-> token, rest |-> rest]

MatchTokenizer(prefix, token, rest) ==
    [kind |-> "Tokenizer", prefix |-> prefix, token |-> token, rest |-> rest]

MatchDelimStart(prefix, start_pattern, end_pattern, rest) ==
    [kind |-> "DelimStart", prefix |-> prefix, start_pattern |-> start_pattern,
     end_pattern |-> end_pattern, rest |-> rest]

MatchDelimEnd(prefix, end_pattern, rest) ==
    [kind |-> "DelimEnd", prefix |-> prefix, end_pattern |-> end_pattern, rest |-> rest]

\* MatchDef with a breaker matched at position 0 as well
MatchDef_breaker_at_zero(def, b, i) ==
    CASE def.kind = "Delim" ->
            IF StartsWith(From(b, i), def.start)
            THEN MatchDelimStart(Upto(b, i), SubSeq(b, i + 1, i + Len(def.start)),
                                 def.end, From(b, i + Len(def.start)))
            ELSE IF StartsWith(From(b, i), def.end)
            THEN MatchDelimEnd(Upto(b, i), SubSeq(b, i + 1, i + Len(def.end)),
                               From(b, i + Len(def.end)))
            ELSE NoMatch
      [] def.kind = "Tokenizer" ->
            IF StartsWith(From(b, i), def.start)
            THEN MatchTokenizer(Upto(b, i), SubSeq(b, i + 1, i + Len(def.start)),
                                From(b, i + Len(def.start)))
            ELSE NoMatch
      [] def.kind = "Breaker" ->
            IF StartsWith(From(b, i), def.start)
            THEN MatchBreak(Upto(b, i), From(b, i))
            ELSE NoMatch

\* The match of one rule at position i, or NoMatch: the body of scan_next's inner loop.
MatchDef(def, b, i) ==
    CASE def.kind = "Delim" ->
            IF StartsWith(From(b, i), def.start)
            THEN MatchDelimStart(Upto(b, i), SubSeq(b, i + 1, i + Len(def.start)),
                                 def.end, From(b, i + Len(def.start)))
            ELSE IF StartsWith(From(b, i), def.end)
            THEN MatchDelimEnd(Upto(b, i), SubSeq(b, i + 1, i + Len(def.end)),
                               From(b, i + Len(def.end)))
            ELSE NoMatch
      [] def.kind = "Tokenizer" ->
            IF StartsWith(From(b, i), def.start)
            THEN MatchTokenizer(Upto(b, i), SubSeq(b, i + 1, i + Len(def.start)),
                                From(b, i + Len(def.start)))
            ELSE NoMatch
      [] def.kind = "Breaker" ->
            IF i # 0 /\ StartsWith(From(b, i), def.start)
            THEN MatchBreak(Upto(b, i), From(b, i))
            ELSE NoMatch

\* scan_next from position i, rule d (counted from 1) on.
RECURSIVE ScanFrom(_, _, _, _)
ScanFrom(g, b, i, d) ==
    IF i >= Len(b) THEN MatchBreak(b, <<>>)
    ELSE IF d > Len(g.defs) THEN ScanFrom(g, b, i + 1, 1)
    ELSE LET m == MatchDef(g.defs[d], b, i)
         IN  IF m.kind # "NoMatch" THEN m ELSE ScanFrom(g, b, i, d + 1)

scan_next(g, b) == ScanFrom(g, b, 0, 1)

\* One iteration of slurp's loop on the builder: the arm of the match.
SlurpArm(b, m) ==
    CASE m.kind = "Tokenizer"  -> push_token(push_token(b, m.prefix), m.token)
      [] m.kind = "DelimStart" ->
            start_recurse(push_token(b, m.prefix), m.start_pattern, m.end_pattern)
      [] m.kind = "DelimEnd"   -> end_recurse(push_token(b, m.prefix), m.end_pattern)
      [] m.kind = "Break"      -> push_token(b, m.prefix)

ParsedFileOf(b) == [root |-> b.root, nodes |-> b.nodes, ranges |-> b.ranges]

(***************************************************************************)
(* fuzz.rs: the sinks and the serializer                                   *)
(***************************************************************************)
\* Vec::new as a sink
VecNew == [kind |-> "Vec", data |-> <<>>]

\* SliceSerializer::new on a zeroed slice of the given capacity
SliceSerializerNew(capacity) ==
    [kind |-> "Slice", slice |-> [i \in 1..capacity |-> "0"], cur_offset |-> 0]

\* SerializeInto for Vec<u8>: push
VecPush(sink, token) == [sink EXCEPT !.data = @ \o token]

\* push as it would be if a token that does not fit whole were skipped
SlicePush_whole_tokens(sink, token) ==
    LET remaining == Len(sink.slice) - sink.cur_offset
    IN  IF Len(token) > 0 /\ Len(token) <= remaining
        THEN [sink EXCEPT
                !.slice = [i \in 1..Len(sink.slice) |->
                             IF i > sink.cur_offset /\ i <= sink.cur_offset + Len(token)
                             THEN token[i - sink.cur_offset]
                             ELSE sink.slice[i]],
                !.cur_offset = @ + Len(token)]
        ELSE sink

\* SerializeInto for SliceSerializer: push
SlicePush(sink, token) ==
    LET remaining == Len(sink.slice) - sink.cur_offset
        num_bytes_to_write == Min(remaining, Len(token))
    IN  IF num_bytes_to_write > 0
        THEN [sink EXCEPT
                !.slice = [i \in 1..Len(sink.slice) |->
                             IF i > sink.cur_offset /\ i <= sink.cur_offset + num_bytes_to_write
                             THEN token[i - sink.cur_offset]
                             ELSE sink.slice[i]],
                !.cur_offset = @ + num_bytes_to_write]
        ELSE sink

\* SerializeInto::push, by the sink's type
push(sink, token) ==
    IF sink.kind = "Vec" THEN VecPush(sink, token) ELSE SlicePush(sink, token)

\* bytes_written as it would be if it reported the capacity of the slice
bytes_written_capacity(sink) == Len(sink.slice)

\* SliceSerializer::bytes_written
bytes_written(sink) == sink.cur_offset

\* The bytes a sink holds: the whole Vec, the slice up to bytes_written
Written(sink) ==
    IF sink.kind = "Vec" THEN sink.data ELSE SubSeq(sink.slice, 1, sink.cur_offset)

\* A serialization in progress: SerializeState and the sink, with what became
\* of the call: panic (an index out of bounds), runaway (the recursion went
\* deeper than any chain of distinct ranges allows, where the model stops
\* following it), depth (the deepest nesting of serialize_noderef so far) and
\* guarded (how often should_serialize answered false) and expanded (how
\* often each range was expanded).
SerializeStateNew(ranges, sink) ==
    [have_serialized_range |-> [i \in 1..Len(ranges) |-> FALSE],
     out |-> sink, panic |-> FALSE, runaway |-> FALSE, depth |-> 0, guarded |-> 0,
     expanded |-> [i \in 1..Len(ranges) |-> 0]]

\* should_serialize as it would be without the have_serialized_range test
should_serialize_always(st, rangeref) == TRUE

\* SerializeState::should_serialize: the value it returns
should_serialize(st, rangeref) == ~At(st.have_serialized_range, rangeref)

\* SerializeState::should_serialize: the state it leaves
mark_serialized(st, rangeref) ==
    [st EXCEPT !.have_serialized_range[rangeref + 1] = TRUE,
               !.expanded[rangeref + 1] = @ + 1]

\* reset as it would be if it left the flag set
reset_keeps_flag(st, rangeref) == st

\* SerializeState::reset
reset(st, rangeref) == [st EXCEPT !.have_serialized_range[rangeref + 1] = FALSE]

Emit(st, token) == [st EXCEPT !.out = push(@, token)]

\* The nesting of serialize_noderef calls beyond which the model gives up
DepthLimit(f) == Len(f.ranges) + 1

RECURSIVE serialize_noderef(_, _, _, _)
RECURSIVE serialize_refs(_, _, _, _)

\* The for loops of serialize and serialize_noderef over a list of NodeRefs
serialize_refs(f, refs, st, depth) ==
    IF refs = <<>> \/ st.panic \/ st.runaway
    THEN st
    ELSE serialize_refs(f, Tail(refs), serialize_noderef(f, Head(refs), st, depth), depth)

\* The expansion of a range under the guard, shared by the Delim and Range arms
ExpandRange(f, rangeref, st, depth) ==
    IF rangeref >= Len(st.have_serialized_range)
    THEN [st EXCEPT !.panic = TRUE]
    ELSE IF should_serialize(st, rangeref)
    THEN LET st1 == mark_serialized(st, rangeref)
             st2 == IF rangeref >= Len(f.ranges)
                    THEN [st1 EXCEPT !.panic = TRUE]
                    ELSE serialize_refs(f, At(f.ranges, rangeref), st1, depth + 1)
         IN  IF st2.panic \/ st2.runaway THEN st2 ELSE reset(st2, rangeref)
    ELSE [st EXCEPT !.guarded = @ + 1]

\* FuzzFile::serialize_noderef
serialize_noderef(f, noderef, st, depth) ==
    IF depth > DepthLimit(f) THEN [st EXCEPT !.runaway = TRUE]
    ELSE IF noderef >= Len(f.nodes) THEN [st EXCEPT !.panic = TRUE]
    ELSE LET node == At(f.nodes, noderef)
             st0 == [st EXCEPT !.depth = IF depth > @ THEN depth ELSE @]
         IN  CASE node.tag = "Delim" ->
                    LET st1 == ExpandRange(f, node.range, Emit(st0, node.open), depth)
                    IN  IF st1.panic \/ st1.runaway THEN st1 ELSE Emit(st1, node.close)
               [] node.tag = "Range" -> ExpandRange(f, node.range, st0, depth)
               [] node.tag = "Token" -> Emit(st0, node.bytes)

\* FuzzFile::serialize
serialize(f, sink) ==
    serialize_refs(f, f.root, SerializeStateNew(f.ranges, sink), 1)

\* The bytes of a FuzzFile in a growable sink
SerializedVec(f) == Written(serialize(f, VecNew).out)

(***************************************************************************)
(* fuzz.rs: FuzzFile and its mutators.  A mutator's random draws are its   *)
(* pick arguments; it yields the FuzzFile it leaves, the boolean it        *)
(* returns and whether it panicked instead of returning.                   *)
(***************************************************************************)
\* FuzzFile::new: three borrowed views
FuzzFileNew(p) ==
    [root |-> p.root, nodes |-> p.nodes, ranges |-> p.ranges, owned |-> {}]

\* Cow::to_mut of one of the three handles
to_mut(f, handle) == [f EXCEPT !.owned = @ \cup {handle}]

Returned(f, ret) == [ff |-> f, ret |-> ret, panic |-> FALSE]

Panicked(f) == [ff |-> f, ret |-> FALSE, panic |-> TRUE]

\* rand::sample(rng, 0..len, 2): a reservoir of the first two indices, each
\* later index replacing one of the two slots or none
SampleTwo(len) ==
    {<<a, b>> \in ({0} \cup 2..(len - 1)) \X ({1} \cup 2..(len - 1)) : a # b}

\* rand_indices: the Options it can return on a slice of the given length
rand_indices(len) == IF len > 1 THEN {Some(p) : p \in SampleTwo(len)} ELSE {None}

\* rand_delim: the Options it can return, a Some holding the index of a Delim node
rand_delim(nodes) ==
    LET delims == {i \in 0..(Len(nodes) - 1) : At(nodes, i).tag = "Delim"}
    IN  IF delims = {} THEN {None} ELSE {Some(i) : i \in delims}

\* Rng::choose / choose_mut: the Options it can return on a slice of the given length
choose(len) == IF len = 0 THEN {None} ELSE {Some(i) : i \in 0..(len - 1)}

\* Rng::shuffle: the orders it can leave a slice in
shuffle(s) == {[i \in 1..Len(s) |-> s[p[i]]] : p \in Permutations(1..Len(s))}

\* Vec::swap
SwapAt(s, i, j) == [s EXCEPT ![i + 1] = At(s, j), ![j + 1] = At(s, i)]

\* n concatenated copies of s
RECURSIVE Repeat(_, _)
Repeat(s, n) == IF n = 0 THEN <<>> ELSE s \o Repeat(s, n - 1)

\* FuzzFile::swap_ranges; indices is what rand_indices returned
swap_ranges(f, indices) ==
    IF indices # None
    THEN LET index0 == indices[1][1]
             index1 == indices[1][2]
             f1 == to_mut(f, "ranges")
         IN  Returned([f1 EXCEPT !.ranges = SwapAt(@, index0, index1)], TRUE)
    ELSE Returned(f, FALSE)

\* FuzzFile::shuffle_range; chosen is what choose_mut returned, shuffled the
\* order rng.shuffle leaves the chosen range in
shuffle_range(f, chosen, shuffled) ==
    LET f1 == to_mut(f, "ranges")
    IN  IF chosen # None
        THEN Returned([f1 EXCEPT !.ranges[chosen[1] + 1] = shuffled], TRUE)
        ELSE Returned(f1, FALSE)

\* FuzzFile::duplicate_range; chosen is what choose_mut returned,
\* num_duplications what gen_range(1, max_duplications) returned.
\* gen_range panics unless low < high.
duplicate_range(f, max_duplications, chosen, num_duplications) ==
    IF max_duplications < 1
    THEN Returned(f, FALSE)
    ELSE LET f1 == to_mut(f, "ranges")
         IN  IF chosen # None
             THEN IF ~(1 < max_duplications)
                  THEN Panicked(f1)
                  ELSE LET range == At(f1.ranges, chosen[1])
                           extension == Repeat(range, num_duplications)
                       IN  Returned([f1 EXCEPT !.ranges[chosen[1] + 1] = range \o extension],
                                    TRUE)
             ELSE Returned(f1, FALSE)

\* FuzzFile::duplicate_root_node; indices is what rand_indices returned on ranges
duplicate_root_node(f, indices) ==
    IF indices # None
    THEN LET src_index == indices[1][1]
             dst_index == indices[1][2]
             f1 == to_mut(f, "nodes")
         IN  IF dst_index >= Len(f1.nodes)
             THEN Panicked(f1)
             ELSE LET dup_node == At(f1.nodes, dst_index)
                      noderef == Len(f1.nodes)
                      f2 == to_mut([f1 EXCEPT !.nodes = Append(@, dup_node)], "ranges")
                      range == <<noderef, src_index>>
                      rangeref == Len(f2.ranges)
                      f3 == [f2 EXCEPT !.ranges = Append(@, range)]
                  IN  Returned([f3 EXCEPT !.nodes[dst_index + 1] = NodeRange(rangeref)],
                               TRUE)
    ELSE Returned(f, FALSE)

\* remove_delim as it would be if it removed the Delim node from the arena
remove_delim_drops_node(f, picked) ==
    IF picked # None
    THEN LET index == picked[1]
             f1 == to_mut(f, "nodes")
         IN  Returned([f1 EXCEPT !.nodes = SubSeq(@, 1, index) \o SubSeq(@, index + 2, Len(@))],
                      TRUE)
    ELSE Returned(f, FALSE)

\* remove_delim as it would be if it took the node's index for its RangeRef
remove_delim_wrong_ref(f, picked) ==
    IF picked # None
    THEN LET index == picked[1]
             f1 == to_mut(f, "nodes")
         IN  Returned([f1 EXCEPT !.nodes[index + 1] = NodeRange(index)], TRUE)
    ELSE Returned(f, FALSE)

\* FuzzFile::remove_delim; picked is what rand_delim returned
remove_delim(f, picked) ==
    IF picked # None
    THEN LET index == picked[1]
             rangeref == At(f.nodes, index).range
             f1 == to_mut(f, "nodes")
         IN  Returned([f1 EXCEPT !.nodes[index + 1] = NodeRange(rangeref)], TRUE)
    ELSE Returned(f, FALSE)

\* swap_delim as it would be if it rebuilt the Delim without transposing
swap_delim_keeps_order(f, picked) ==
    IF picked # None
    THEN LET index == picked[1]
             node == At(f.nodes, index)
             f1 == to_mut(f, "nodes")
         IN  Returned([f1 EXCEPT !.nodes[index + 1] =
                          NodeDelim(node.open, node.range, node.close)],
                      TRUE)
    ELSE Returned(f, FALSE)

\* FuzzFile::swap_delim; picked is what rand_delim returned
swap_delim(f, picked) ==
    IF picked # None
    THEN LET index == picked[1]
             node == At(f.nodes, index)
             delim == Delim(node.close, node.open)
             f1 == to_mut(f, "nodes")
         IN  Returned([f1 EXCEPT !.nodes[index + 1] =
                          NodeDelim(delim.start_pattern, node.range, delim.end_pattern)],
                      TRUE)
    ELSE Returned(f, FALSE)

\* nest_delim that leaves the chosen node as it was
nest_delim_keeps_range(f, picked) ==
    IF picked # None
    THEN LET index == picked[1]
             node == At(f.nodes, index)
             f1 == to_mut(to_mut(f, "nodes"), "ranges")
             nested_noderef == Len(f1.nodes)
             f2 == [f1 EXCEPT !.nodes = Append(@, NodeDelim(node.open, node.range, node.close))]
         IN  Returned([f2 EXCEPT !.ranges = Append(@, <<nested_noderef>>)], TRUE)
    ELSE Returned(f, FALSE)

\* FuzzFile::nest_delim; picked is what rand_delim returned
nest_delim(f, picked) ==
    IF picked # None
    THEN LET index == picked[1]
             node == At(f.nodes, index)
             f1 == to_mut(to_mut(f, "nodes"), "ranges")
             nested_noderef == Len(f1.nodes)
             f2 == [f1 EXCEPT !.nodes = Append(@, NodeDelim(node.open, node.range, node.close))]
             nested_rangeref == Len(f2.ranges)
             f3 == [f2 EXCEPT !.ranges = Append(@, <<nested_noderef>>)]
         IN  Returned([f3 EXCEPT !.nodes[index + 1] =
                          NodeDelim(node.open, nested_rangeref, node.close)],
                      TRUE)
    ELSE Returned(f, FALSE)

\* empty_delim writing through the borrowed views of nodes and ranges
empty_delim_in_place(f, picked) ==
    IF picked # None
    THEN LET index == picked[1]
             node == At(f.nodes, index)
             rangeref == Len(f.ranges)
             f2 == [f EXCEPT !.ranges = Append(@, <<>>)]
         IN  Returned([f2 EXCEPT !.nodes[index + 1] =
                          NodeDelim(node.open, rangeref, node.close)],
                      TRUE)
    ELSE Returned(f, FALSE)

\* FuzzFile::empty_delim; picked is what rand_delim returned
empty_delim(f, picked) ==
    IF picked # None
    THEN LET index == picked[1]
             node == At(f.nodes, index)
             f1 == to_mut(to_mut(f, "nodes"), "ranges")
             rangeref == Len(f1.ranges)
             f2 == [f1 EXCEPT !.ranges = Append(@, <<>>)]
         IN  Returned([f2 EXCEPT !.nodes[index + 1] =
                          NodeDelim(node.open, rangeref, node.close)],
                      TRUE)
    ELSE Returned(f, FALSE)

\* rand_delim as it would be if the arm that overwrites the node returned false
rand_delim_returns_false(f, delims, picked, chosen) ==
    IF delims = <<>>
    THEN Returned(f, FALSE)
    ELSE IF picked # None /\ chosen # None
    THEN LET index == picked[1]
             node == At(f.nodes, index)
             new_delim == At(delims, chosen[1])
         IN  IF new_delim # Delim(node.open, node.close)
             THEN Returned([to_mut(f, "nodes") EXCEPT !.nodes[index + 1] =
                               NodeDelim(new_delim.start_pattern, node.range,
                                         new_delim.end_pattern)],
                           FALSE)
             ELSE Returned(f, FALSE)
    ELSE Returned(f, FALSE)

\* FuzzFile::rand_delim; picked is what rand_delim returned on the nodes,
\* chosen what rng.choose returned on delims
FuzzFile_rand_delim(f, delims, picked, chosen) ==
    IF delims = <<>>
    THEN Returned(f, FALSE)
    ELSE IF picked # None
    THEN LET index == picked[1]
             node == At(f.nodes, index)
             delim == Delim(node.open, node.close)
         IN  IF chosen # None
             THEN LET new_delim == At(delims, chosen[1])
                  IN  IF new_delim # delim
                      THEN Returned([to_mut(f, "nodes") EXCEPT !.nodes[index + 1] =
                                        NodeDelim(new_delim.start_pattern, node.range,
                                                  new_delim.end_pattern)],
                                    TRUE)
                      ELSE Returned(f, FALSE)
             ELSE Returned(f, FALSE)
    ELSE Returned(f, FALSE)

\* default_mutations
default_mutations ==
    <<"DuplicateRange", "DuplicateRootNode", "EmptyDelim", "NestDelim", "RandDelim",
      "RemoveDelim", "ShuffleRanges", "SwapDelim", "SwapRanges">>

\* FuzzConfig
FuzzConfig(max_mutations, max_duplications, valid_actions, all_delims) ==
    [max_mutations |-> max_mutations, max_duplications |-> max_duplications,
     valid_actions |-> valid_actions, all_delims |-> all_delims]

(***************************************************************************)
(* output.rs: OutputPattern.  A path is a sequence of characters; the      *)
(* operators on paths follow std::path on Unix.                            *)
(***************************************************************************)
\* The segments of a path between its separators
RECURSIVE SplitSegs(_)
SplitSegs(s) ==
    IF \E i \in 1..Len(s) : s[i] = "/"
    THEN LET i == CHOOSE i \in 1..Len(s) :
                     s[i] = "/" /\ \A j \in 1..(i - 1) : s[j] # "/"
         IN  <<SubSeq(s, 1, i - 1)>> \o SplitSegs(SubSeq(s, i + 1, Len(s)))
    ELSE <<s>>

\* Path::components: the root, a leading ".", and every segment that is
\* neither empty nor "."; k is the segment the component comes from
Components(s) ==
    LET segs == SplitSegs(s)
        has_root == s # << >> /\ s[1] = "/"
        comp(k) == CASE has_root /\ k = 1 -> [kind |-> "RootDir", k |-> k, name |-> << >>]
                     [] ~(has_root /\ k = 1) /\ segs[k] = << >> ->
                           [kind |-> "Skip", k |-> k, name |-> << >>]
                     [] ~(has_root /\ k = 1) /\ segs[k] = <<".">> ->
                           [kind |-> IF k = 1 THEN "CurDir" ELSE "Skip", k |-> k,
                            name |-> segs[k]]
                     [] ~(has_root /\ k = 1) /\ segs[k] = <<".", ".">> ->
                           [kind |-> "ParentDir", k |-> k, name |-> segs[k]]
                     [] OTHER -> [kind |-> "Normal", k |-> k, name |-> segs[k]]
        IsComponent(c) == c.kind # "Skip"
    IN  SelectSeq([k \in 1..Len(segs) |-> comp(k)], IsComponent)

\* The length of the text of a path up to the end of its segment k
RECURSIVE EndOfSeg(_, _)
EndOfSeg(segs, k) ==
    IF k = 1 THEN Len(segs[1]) ELSE EndOfSeg(segs, k - 1) + 1 + Len(segs[k])

\* Path::parent
parent(s) ==
    LET comps == Components(s)
    IN  IF comps = << >> THEN None
        ELSE IF comps[Len(comps)].kind = "RootDir" THEN None
        ELSE IF Len(comps) = 1 THEN Some(<< >>)
        ELSE IF comps[Len(comps) - 1].kind = "RootDir" THEN Some(<<"/">>)
        ELSE Some(SubSeq(s, 1, EndOfSeg(SplitSegs(s), comps[Len(comps) - 1].k)))

\* Path::file_name
file_name(s) ==
    LET comps == Components(s)
    IN  IF comps # << >> /\ comps[Len(comps)].kind = "Normal"
        THEN Some(comps[Len(comps)].name)
        ELSE None

\* str::find("{}"): the offset of the first marker
find_marker(s) ==
    LET at == {i \in 0..(Len(s) - 2) : s[i + 1] = "{" /\ s[i + 2] = "}"}
    IN  IF at = {} THEN None ELSE Some(CHOOSE i \in at : \A j \in at : i <= j)

Ok(x) == [ok |-> TRUE, val |-> x]

Err(msg) == [ok |-> FALSE, val |-> msg]

\* OutputPattern::from_path
from_path(pattern) ==
    IF parent(pattern) # None /\ file_name(pattern) # None
    THEN LET dirname == parent(pattern)[1]
             filename_str == file_name(pattern)[1]
         IN  IF find_marker(filename_str) # None
             THEN LET pattern_offset == find_marker(filename_str)[1]
                  IN  Ok([dirname |-> dirname,
                          filename_prefix |-> SubSeq(filename_str, 1, pattern_offset),
                          filename_suffix |-> From(filename_str, pattern_offset + 2)])
             ELSE Err("Could not find '{}' marker")
    ELSE Err("Pattern must include directory and filename")

Digit(d) == <<"0", "1", "2", "3", "4", "5", "6", "7", "8", "9">>[d + 1]

\* ToString of an unsigned integer
RECURSIVE to_string(_)
to_string(value) ==
    IF value < 10 THEN <<Digit(value)>>
    ELSE to_string(value \div 10) \o <<Digit(value % 10)>>

\* PathBuf::push
PathPush(path, p) ==
    IF p # << >> /\ p[1] = "/" THEN p
    ELSE path \o (IF path # << >> /\ path[Len(path)] # "/" THEN <<"/">> ELSE << >>) \o p

\* OutputPattern::with
with(self, value) ==
    LET filename == self.filename_prefix \o to_string(value) \o self.filename_suffix
    IN  PathPush(PathPush(<< >>, self.dirname), filename)

(***************************************************************************)
(* The inputs of the model                                                 *)
(***************************************************************************)
\* Every byte buffer of at most n bytes
RECURSIVE Buffers(_)
Buffers(n) ==
    IF n = 0 THEN {<<>>}
    ELSE LET shorter == Buffers(n - 1)
         IN  shorter \cup {Append(b, c) : b \in {x \in shorter : Len(x) = n - 1}, c \in Bytes}

\* whitespace " " alone as main.rs, test_whitespace builds it:
\* Grammar::new(vec![], vec![b" ".to_vec()])
GrammarTestWhitespace == GrammarNew(<< >>, << <<" ">> >>)

\* whitespace " " alone, composed into the rule list
GrammarWhitespace == GrammarFromLists(<< >>, << <<" ">> >>, << >>)

\* delimiters "<<" ">>": main.rs, test_delim
GrammarDelim == GrammarFromLists(<< <<(<<"<", "<">>), (<<">", ">">>)>> >>, << >>, << >>)

\* one-byte delimiters, a whitespace pattern and a breaker
GrammarAll == GrammarFromLists(<< <<(<<"<">>), (<<">">>)>> >>, << <<" ">> >>, << <<";">> >>)

\* two delimiter pairs with different closes
GrammarTwo ==
    GrammarFromLists(<< <<(<<"<">>), (<<">">>)>>, <<(<<"a">>), (<<";">>)>> >>, << >>, << >>)

\* a breaker listed before a delimiter pair whose open equals its close
GrammarNewOrder == GrammarNew(<<DefBreaker(<<";">>), DefDelim(<<"a">>, <<"a">>)>>, << >>)

\* a delimiter pair with an empty open pattern
GrammarEmptyOpen == GrammarFromLists(<< <<(<< >>), (<<">">>)>> >>, << >>, << >>)

\* a delimiter pair with an empty close pattern, and a breaker
GrammarEmptyClose == GrammarFromLists(<< <<(<<"<">>), (<< >>)>> >>, << >>, << <<";">> >>)

\* an empty whitespace pattern
GrammarEmptyWhitespace == GrammarFromLists(<< >>, << << >> >>, << >>)

\* a grammar file with one delimiter pair, a break and a whitespace pattern
GrammarLoaded ==
    Grammar_from_path(<< <<(<<"<">>), (<<">">>)>> >>, << <<";">> >>, << <<" ">> >>)

\* a grammar file with the break ";" alone
GrammarBreaks == Grammar_from_path(<< >>, << <<";">> >>, << >>)

\* rules that match at the same position: ">" closes the first pair and opens
\* the second, ";" closes the second pair and is a whitespace pattern
GrammarTie ==
    GrammarFromLists(<< <<(<<"<">>), (<<">">>)>>, <<(<<">">>), (<<";">>)>> >>,
                     << <<";">> >>, << >>)

Grammars ==
    {GrammarTestWhitespace, GrammarWhitespace, GrammarDelim, GrammarAll, GrammarTwo, GrammarNewOrder,
     GrammarEmptyOpen, GrammarEmptyClose, GrammarEmptyWhitespace,
     GrammarLoaded, GrammarBreaks, GrammarTie}

\* The inputs of main.rs, test_whitespace and test_delim that are longer than
\* the buffers of Buffers
ExampleInputs ==
    {[g |-> GrammarTestWhitespace, b |-> <<"1", " ", "2", " ", "3">>],
     [g |-> GrammarWhitespace, b |-> <<"1", " ", "2", " ", "3">>],
     [g |-> GrammarDelim, b |-> <<"1", "<", "<", "2", "<", "<", "3", ">", ">", "4">>],
     [g |-> GrammarDelim, b |-> <<"1", "<", "<", "2", ">", ">", "3">>],
     [g |-> GrammarBreaks, b |-> <<"a", ";", "b">>]}

\* The inputs of the parser: every grammar on every short buffer, and the examples
ParseInputs == {[g |-> g, b |-> b] : g \in Grammars, b \in Buffers(MaxLen)} \cup ExampleInputs

\* The files the fuzzer is run on
FuzzInputs ==
    {[g |-> GrammarDelim, b |-> <<"1", "<", "<", "2", ">", ">", "3">>],
     [g |-> GrammarAll,   b |-> <<"<", ">", "<", ">">>],
     [g |-> GrammarAll,   b |-> <<"<", "a", " ", ">">>],
     [g |-> GrammarTwo,   b |-> <<"<", "1", ">">>],
     [g |-> GrammarWhitespace, b |-> <<"1", " ", "2">>]}

\* The configurations fuzz_one is run with: every batch length with the
\* default catalogue and the largest max_duplications, and every
\* max_duplications and an empty catalogue with batches of at most two calls
Configs(g) ==
    {FuzzConfig(m, MaxDuplications, default_mutations, GrammarDelims(g)) :
        m \in 0..MaxMutations}
    \cup
    {FuzzConfig(m, d, v, GrammarDelims(g)) :
        m \in 0..Min(2, MaxMutations), d \in 0..MaxDuplications,
        v \in {default_mutations, << >>}}

PathChars == {"/", "{", "}", "a", "."}

\* Every path of at most n characters of PathChars
RECURSIVE Paths(_)
Paths(n) ==
    IF n = 0 THEN {<< >>}
    ELSE LET shorter == Paths(n - 1)
         IN  shorter \cup {Append(b, c) : b \in {x \in shorter : Len(x) = n - 1},
                                           c \in PathChars}

\* The patterns of output.rs, test_output_pattern
PatternWithoutMarker == <<"o", "u", "t", "/", "n", "a", "m", "e", ".", "e", "x", "t">>

PatternWithMarker == <<"o", "u", "t", "/", "{", "}", ".", "e", "x", "t">>

Patterns == Paths(MaxPath) \cup {PatternWithoutMarker, PatternWithMarker}

\* The values substituted for the marker
Values == {0, 7, 12}

NoFile == [root |-> << >>, nodes |-> << >>, ranges |-> << >>]

\* No OutputPattern yet
OutputIdle == [pattern |-> << >>, value |-> 0, result |-> None, path |-> << >>]

\* The harness before any call: the three statics are None.  completed is the
\* set of entry points that have returned normally with their statics set
\* (afl_fuzz_init, and afl_parse_one with return value 0).
HarnessIdle ==
    [GRAMMAR |-> None, PARSED_FILE |-> None, RNG |-> None,
     in_buf_null |-> TRUE, in_len |-> 0, parse_ret |-> 0,
     out_buf_null |-> TRUE, out_len |-> 0, ret |-> 0,
     completed |-> {}]

\* The positions at which the host can make its next call
HostPcs == {"host", "init_returned", "parse_returned", "afl_returned"}

\* Option::unwrap panics on None
unwrap_panics(opt) == opt = None

(***************************************************************************)
(* slurp                                                                   *)
(***************************************************************************)
InitCommon ==
    /\ pc = "slurp"
    /\ remainder = buf
    /\ builder = TreeBuilderNew
    /\ steps = 0
    /\ parsed = NoFile
    /\ ff = FuzzFileNew(NoFile)
    /\ iter = 0
    /\ did_mutate = FALSE
    /\ rets = << >>
    /\ lastOp = "-"
    /\ result = "Pending"
    /\ out = VecNew
    /\ harness = HarnessIdle
    /\ output = OutputIdle

\* One iteration of slurp's while loop.  On a grammar that consumes at least
\* one byte per iteration the loop ends within Len(buf) iterations; the model
\* follows any run for one iteration more than that.
SlurpStep ==
    /\ pc = "slurp"
    /\ remainder # << >>
    /\ steps <= Len(buf)
    /\ LET token_match == scan_next(grammar, remainder)
       IN  /\ builder' = SlurpArm(builder, token_match)
           /\ remainder' = token_match.rest
    /\ steps' = steps + 1
    /\ UNCHANGED <<output, harness, grammar, buf, config, pc, parsed, ff, iter, did_mutate, rets,
                   lastOp, result, out>>

\* The end of slurp: builder.finish() and the ParsedFile it returns
SlurpFinish ==
    /\ pc = "slurp"
    /\ remainder = << >>
    /\ builder' = finish(builder)
    /\ parsed' = ParsedFileOf(builder')
    /\ pc' = "parsed"
    /\ UNCHANGED <<output, harness, grammar, buf, config, remainder, steps, ff, iter, did_mutate, rets,
                   lastOp, result, out>>

(***************************************************************************)
(* main.rs, test::roundtrip                                                *)
(***************************************************************************)
RoundtripVec ==
    /\ pc = "parsed"
    /\ ff' = FuzzFileNew(parsed)
    /\ out' = serialize(ff', VecNew).out
    /\ pc' = "roundtrip_vec"
    /\ UNCHANGED <<output, harness, grammar, buf, config, remainder, builder, steps, parsed, iter,
                   did_mutate, rets, lastOp, result>>

RoundtripSlice ==
    /\ pc = "roundtrip_vec"
    /\ \E capacity \in 0..MaxCap : out' = serialize(ff, SliceSerializerNew(capacity)).out
    /\ pc' = "roundtrip_slice"
    /\ UNCHANGED <<output, harness, grammar, buf, config, remainder, builder, steps, parsed, ff, iter,
                   did_mutate, rets, lastOp, result>>

(***************************************************************************)
(* fuzz_one and its caller do_fuzz                                         *)
(***************************************************************************)
\* fuzz_one is entered: a fresh view of the parsed file
FuzzOneStart ==
    /\ pc \in {"parsed", "returned", "written"}
    /\ ff' = FuzzFileNew(parsed)
    /\ did_mutate' = FALSE
    /\ iter' = 0
    /\ rets' = << >>
    /\ lastOp' = "-"
    /\ result' = "Pending"
    /\ out' = VecNew
    /\ pc' = "fuzz"
    /\ UNCHANGED <<output, harness, grammar, buf, config, remainder, builder, steps, parsed>>

\* rng.choose(&config.valid_actions) can return Some(m) in this iteration
Chosen(m) ==
    /\ pc = "fuzz"
    /\ iter < config.max_mutations
    /\ \E i \in 1..Len(config.valid_actions) : config.valid_actions[i] = m

\* the update of did_mutate as it would be with = in place of |=
or_assign_overwrites(did, ret) == ret

\* fuzz_one: did_mutate |= the value the mutator returned
or_assign(did, ret) == did \/ ret

\* fuzz_one: the Option it returns
fuzz_one_result(did) == IF did THEN "Some" ELSE "None"

\* One iteration of fuzz_one's loop with the outcome o of the mutator m
Iterate(o, m) ==
    /\ lastOp' = m
    /\ ff' = o.ff
    /\ IF o.panic
       THEN /\ pc' = "panicked"
            /\ UNCHANGED <<iter, did_mutate, rets>>
       ELSE /\ pc' = "fuzz"
            /\ iter' = iter + 1
            /\ did_mutate' = or_assign(did_mutate, o.ret)
            /\ rets' = Append(rets, o.ret)
    /\ UNCHANGED <<output, harness, grammar, buf, config, remainder, builder, steps, parsed, result, out>>

\* Rng::gen_range: the values it can return (it panics unless low < high)
gen_range(low, high) == IF low < high THEN low..(high - 1) ELSE {low}

DuplicateRange ==
    /\ Chosen("DuplicateRange")
    /\ \E chosen \in choose(Len(ff.ranges)) :
       \E num_duplications \in gen_range(1, config.max_duplications) :
          /\ chosen # None =>
                Len(At(ff.ranges, chosen[1])) * (num_duplications + 1) <= MaxRangeLen
          /\ Iterate(duplicate_range(ff, config.max_duplications, chosen, num_duplications),
                     "DuplicateRange")

DuplicateRootNode ==
    /\ Chosen("DuplicateRootNode")
    /\ \E indices \in rand_indices(Len(ff.ranges)) :
          Iterate(duplicate_root_node(ff, indices), "DuplicateRootNode")

EmptyDelim ==
    /\ Chosen("EmptyDelim")
    /\ \E picked \in rand_delim(ff.nodes) : Iterate(empty_delim(ff, picked), "EmptyDelim")

NestDelim ==
    /\ Chosen("NestDelim")
    /\ \E picked \in rand_delim(ff.nodes) : Iterate(nest_delim(ff, picked), "NestDelim")

RandDelim ==
    /\ Chosen("RandDelim")
    /\ \E picked \in rand_delim(ff.nodes) :
       \E chosen \in choose(Len(config.all_delims)) :
          Iterate(FuzzFile_rand_delim(ff, config.all_delims, picked, chosen), "RandDelim")

RemoveDelim ==
    /\ Chosen("RemoveDelim")
    /\ \E picked \in rand_delim(ff.nodes) : Iterate(remove_delim(ff, picked), "RemoveDelim")

ShuffleRanges ==
    /\ Chosen("ShuffleRanges")
    /\ \E chosen \in choose(Len(ff.ranges)) :
       \E shuffled \in (IF chosen = None THEN {<< >>} ELSE shuffle(At(ff.ranges, chosen[1]))) :
          Iterate(shuffle_range(ff, chosen, shuffled), "ShuffleRanges")

SwapDelim ==
    /\ Chosen("SwapDelim")
    /\ \E picked \in rand_delim(ff.nodes) : Iterate(swap_delim(ff, picked), "SwapDelim")

SwapRanges ==
    /\ Chosen("SwapRanges")
    /\ \E indices \in rand_indices(Len(ff.ranges)) :
          Iterate(swap_ranges(ff, indices), "SwapRanges")

\* rng.choose returns None on an empty valid_actions: the iteration ors in false
NoAction ==
    /\ pc = "fuzz"
    /\ iter < config.max_mutations
    /\ config.valid_actions = << >>
    /\ Iterate(Returned(ff, FALSE), "-")

\* fuzz_one returns
FuzzOneReturn ==
    /\ pc = "fuzz"
    /\ iter = config.max_mutations
    /\ result' = fuzz_one_result(did_mutate)
    /\ pc' = "returned"
    /\ UNCHANGED <<output, harness, grammar, buf, config, remainder, builder, steps, parsed, ff, iter,
                   did_mutate, rets, lastOp, out>>

\* do_fuzz serializes the variant fuzz_one returned
DoFuzzWrite ==
    /\ pc = "returned"
    /\ result = "Some"
    /\ LET st == serialize(ff, VecNew)
       IN  /\ out' = st.out
           /\ pc' = IF st.panic THEN "write_panicked" ELSE "written"
    /\ UNCHANGED <<output, harness, grammar, buf, config, remainder, builder, steps, parsed, ff, iter,
                   did_mutate, rets, lastOp, result>>

Mutate ==
    \/ DuplicateRange
    \/ DuplicateRootNode
    \/ EmptyDelim
    \/ NestDelim
    \/ RandDelim
    \/ RemoveDelim
    \/ ShuffleRanges
    \/ SwapDelim
    \/ SwapRanges
    \/ NoAction

(***************************************************************************)
(* shft-afl: afl_fuzz_one.  PARSED_FILE is parsed, the batch runs under    *)
(* config, and out is the SliceSerializer over the caller's out_len bytes, *)
(* which the model hands over zeroed.                                      *)
(***************************************************************************)
\* A new call of the host: the locals, arguments and return value of the
\* afl_fuzz_one call before it are gone
FuzzLocalsGone ==
    /\ ff' = FuzzFileNew(NoFile)
    /\ did_mutate' = FALSE
    /\ iter' = 0
    /\ rets' = << >>
    /\ lastOp' = "-"
    /\ result' = "Pending"
    /\ out' = VecNew

\* The harness without the arguments and return values of the calls before
Statics(h) ==
    [h EXCEPT !.in_buf_null = TRUE, !.in_len = 0, !.parse_ret = 0,
              !.out_buf_null = TRUE, !.out_len = 0, !.ret = 0]

\* afl_fuzz_init: the generator and the grammar of the configuration file
AflFuzzInit ==
    /\ pc \in HostPcs
    /\ harness' = [Statics(harness) EXCEPT !.RNG = Some("unseeded"),
                                           !.GRAMMAR = Some(grammar),
                                           !.completed = @ \cup {"afl_fuzz_init"}]
    /\ pc' = "init_returned"
    /\ FuzzLocalsGone
    /\ UNCHANGED <<output, grammar, buf, config, remainder, builder, steps, parsed>>

\* afl_parse_one with a null in_buf or in_len = 0 that clears PARSED_FILE
afl_parse_one_rejected_clears(h, in_buf_null, in_len) ==
    [h EXCEPT !.in_buf_null = in_buf_null, !.in_len = in_len, !.parse_ret = 1,
              !.PARSED_FILE = None]

\* afl_parse_one with a null in_buf or in_len = 0: the harness after it returned 1
afl_parse_one_rejected(h, in_buf_null, in_len) ==
    [h EXCEPT !.in_buf_null = in_buf_null, !.in_len = in_len, !.parse_ret = 1]

\* afl_parse_one with a null in_buf or in_len = 0 returns 1
AflParseOneReject ==
    /\ pc \in HostPcs
    /\ \E in_buf_null \in BOOLEAN : \E in_len \in {0, Len(buf)} :
          /\ in_buf_null \/ in_len = 0
          /\ harness' = afl_parse_one_rejected(Statics(harness), in_buf_null, in_len)
    /\ pc' = "parse_returned"
    /\ FuzzLocalsGone
    /\ UNCHANGED <<output, grammar, buf, config, remainder, builder, steps, parsed>>

\* afl_parse_one with a buffer: GRAMMAR is unwrapped and slurp is entered
AflParseOneStart ==
    /\ pc \in HostPcs
    /\ Len(buf) > 0
    /\ harness' = [Statics(harness) EXCEPT !.in_buf_null = FALSE, !.in_len = Len(buf)]
    /\ IF unwrap_panics(harness.GRAMMAR)
       THEN /\ pc' = "afl_panicked"
            /\ UNCHANGED <<remainder, builder, steps>>
       ELSE /\ remainder' = buf
            /\ builder' = TreeBuilderNew
            /\ steps' = 0
            /\ pc' = "slurp"
    /\ FuzzLocalsGone
    /\ UNCHANGED <<output, grammar, buf, config, parsed>>

\* afl_parse_one after slurp returned: PARSED_FILE is assigned, 0 is returned
AflParseOneInstall ==
    /\ pc = "parsed"
    /\ harness' = [harness EXCEPT !.PARSED_FILE = Some(parsed),
                                  !.parse_ret = 0,
                                  !.completed = @ \cup {"afl_parse_one"}]
    /\ pc' = "parse_returned"
    /\ UNCHANGED <<output, grammar, buf, config, remainder, builder, steps, parsed, ff, iter,
                   did_mutate, rets, lastOp, result, out>>

\* afl_fuzz_one with a null out_buf or out_len = 0 returns 0
AflFuzzOneReject ==
    /\ pc \in HostPcs
    /\ \E out_buf_null \in BOOLEAN : \E out_len \in 0..MaxCap :
          /\ out_buf_null \/ out_len = 0
          /\ harness' = [Statics(harness) EXCEPT !.out_buf_null = out_buf_null,
                                                 !.out_len = out_len, !.ret = 0]
    /\ pc' = "afl_returned"
    /\ FuzzLocalsGone
    /\ UNCHANGED <<output, grammar, buf, config, remainder, builder, steps, parsed>>

\* afl_fuzz_one with a buffer: PARSED_FILE and RNG are unwrapped and fuzz_one
\* is entered
AflFuzzOneStart ==
    /\ pc \in HostPcs
    /\ \E out_len \in 1..MaxCap :
          /\ harness' = [Statics(harness) EXCEPT !.out_buf_null = FALSE,
                                                 !.out_len = out_len, !.ret = 0]
          /\ IF unwrap_panics(harness.PARSED_FILE) \/ unwrap_panics(harness.RNG)
             THEN /\ pc' = "afl_panicked"
                  /\ FuzzLocalsGone
             ELSE /\ out' = SliceSerializerNew(out_len)
                  /\ ff' = FuzzFileNew(harness.PARSED_FILE[1])
                  /\ did_mutate' = FALSE
                  /\ iter' = 0
                  /\ rets' = << >>
                  /\ lastOp' = "-"
                  /\ result' = "Pending"
                  /\ pc' = "fuzz"
    /\ UNCHANGED <<output, grammar, buf, config, remainder, builder, steps, parsed>>

\* afl_fuzz_one after fuzz_one returned: the match on its result
AflFuzzOneWrite ==
    /\ pc = "returned"
    /\ IF result = "Some"
       THEN LET st == serialize(ff, out)
            IN  /\ out' = st.out
                /\ harness' = [harness EXCEPT !.ret = bytes_written(st.out)]
                /\ pc' = IF st.panic THEN "afl_panicked" ELSE "afl_returned"
       ELSE /\ harness' = [harness EXCEPT !.ret = 0]
            /\ pc' = "afl_returned"
            /\ UNCHANGED out
    /\ UNCHANGED <<output, grammar, buf, config, remainder, builder, steps, parsed, ff, iter,
                   did_mutate, rets, lastOp, result>>

(***************************************************************************)
(* The specifications                                                      *)
(***************************************************************************)
\* The fuzzer on a parsed file
Init ==
    /\ \E input \in FuzzInputs : grammar = input.g /\ buf = input.b
    /\ config \in Configs(grammar)
    /\ InitCommon

Next ==
    \/ SlurpStep
    \/ SlurpFinish
    \/ FuzzOneStart
    \/ Mutate
    \/ FuzzOneReturn
    \/ DoFuzzWrite

Spec == Init /\ [][Next]_vars

\* The parser and the round trip on every grammar and every short buffer
InitParse ==
    /\ \E input \in ParseInputs : grammar = input.g /\ buf = input.b
    /\ config = FuzzConfig(0, 0, << >>, GrammarDelims(grammar))
    /\ InitCommon

NextParse ==
    \/ SlurpStep
    \/ SlurpFinish
    \/ RoundtripVec
    \/ RoundtripSlice

SpecParse == InitParse /\ [][NextParse]_vars

\* The batches the harness is run with
AflConfigs(g) ==
    {FuzzConfig(m, MaxDuplications, v, GrammarDelims(g)) :
        m \in 0..2, v \in {default_mutations, << >>}}

\* The harness before the host's first call, with the grammar of the
\* configuration file and the buffer the host parses
InitAfl ==
    /\ \E input \in FuzzInputs : grammar = input.g /\ buf = input.b
    /\ config \in AflConfigs(grammar)
    /\ pc = "host"
    /\ remainder = buf
    /\ builder = TreeBuilderNew
    /\ steps = 0
    /\ parsed = NoFile
    /\ ff = FuzzFileNew(NoFile)
    /\ iter = 0
    /\ did_mutate = FALSE
    /\ rets = << >>
    /\ lastOp = "-"
    /\ result = "Pending"
    /\ out = VecNew
    /\ harness = HarnessIdle
    /\ output = OutputIdle

NextAfl ==
    \/ AflFuzzInit
    \/ AflParseOneReject
    \/ AflParseOneStart
    \/ SlurpStep
    \/ SlurpFinish
    \/ AflParseOneInstall
    \/ AflFuzzOneReject
    \/ AflFuzzOneStart
    \/ Mutate
    \/ FuzzOneReturn
    \/ AflFuzzOneWrite

SpecAfl == InitAfl /\ [][NextAfl]_vars

\* OutputPattern::from_path on the pattern
FromPath ==
    /\ pc = "from_path"
    /\ output' = [output EXCEPT !.result = Some(from_path(output.pattern))]
    /\ pc' = IF from_path(output.pattern).ok THEN "pattern_ok" ELSE "pattern_err"
    /\ UNCHANGED <<harness, grammar, buf, config, remainder, builder, steps, parsed, ff,
                   iter, did_mutate, rets, lastOp, result, out>>

\* OutputPattern::with on the value
With ==
    /\ pc = "pattern_ok"
    /\ output' = [output EXCEPT !.path = with(output.result[1].val, output.value)]
    /\ pc' = "named"
    /\ UNCHANGED <<harness, grammar, buf, config, remainder, builder, steps, parsed, ff,
                   iter, did_mutate, rets, lastOp, result, out>>

\* An output pattern and a value to name a variant with
InitOutput ==
    /\ \E pattern \in Patterns : \E value \in Values :
          output = [OutputIdle EXCEPT !.pattern = pattern, !.value = value]
    /\ pc = "from_path"
    /\ grammar = GrammarDelim
    /\ buf = << >>
    /\ config = FuzzConfig(0, 0, << >>, GrammarDelims(grammar))
    /\ remainder = buf
    /\ builder = TreeBuilderNew
    /\ steps = 0
    /\ parsed = NoFile
    /\ ff = FuzzFileNew(NoFile)
    /\ iter = 0
    /\ did_mutate = FALSE
    /\ rets = << >>
    /\ lastOp = "-"
    /\ result = "Pending"
    /\ out = VecNew
    /\ harness = HarnessIdle

NextOutput ==
    \/ FromPath
    \/ With

SpecOutput == InitOutput /\ [][NextOutput]_vars

(***************************************************************************)
(* Properties                                                              *)
(***************************************************************************)
\* The positions at which ff is the FuzzFile of a fuzz_one call
FuzzPcs == {"fuzz", "returned", "written", "panicked", "write_panicked"}

\* A step that is one mutator call of fuzz_one's loop
MutatorCall == pc = "fuzz" /\ pc' \in {"fuzz", "panicked"}

\* A mutator call that returned, and the boolean it returned
MutatorReturned(ret) ==
    pc = "fuzz" /\ pc' = "fuzz" /\ iter' = iter + 1 /\ rets'[Len(rets')] = ret

\* root, nodes and ranges of a FuzzFile
Content(f) == <<f.root, f.nodes, f.ranges>>

\* C1: round-trip identity.  Serializing the unmutated FuzzFile of slurp(g, b)
\* into a Vec yields exactly b, and so does serializing it into a slice whose
\* capacity is at least |b| (the bytes up to bytes_written).
C1_RoundTrip ==
    /\ pc = "roundtrip_vec" => out = [kind |-> "Vec", data |-> buf]
    /\ (pc = "roundtrip_slice" /\ Len(out.slice) >= Len(buf)) =>
          /\ bytes_written(out) = Len(buf)
          /\ SubSeq(out.slice, 1, bytes_written(out)) = buf

\* C1 witness: a round trip through both sinks of a full-length buffer that
\* parsed into a Delim node and left an unmatched pattern as a Token.
C1_Witness ==
    /\ pc = "roundtrip_slice"
    /\ Len(buf) = MaxLen
    /\ Len(out.slice) >= Len(buf)
    /\ Written(out) = buf
    /\ \E i \in 1..Len(parsed.nodes) : parsed.nodes[i].tag = "Delim"
    /\ \E i \in 1..Len(parsed.nodes) :
          parsed.nodes[i].tag = "Token" /\ parsed.nodes[i].bytes \in {<<"<">>, <<">">>}

\* Every NodeRef of root and of every range indexes nodes, and every RangeRef
\* of a Delim or Range node indexes ranges
RefsValid(f) ==
    /\ \A i \in 1..Len(f.root) : f.root[i] < Len(f.nodes)
    /\ \A r \in 1..Len(f.ranges) : \A i \in 1..Len(f.ranges[r]) :
          f.ranges[r][i] < Len(f.nodes)
    /\ \A n \in 1..Len(f.nodes) :
          f.nodes[n].tag \in {"Delim", "Range"} => f.nodes[n].range < Len(f.ranges)

\* C2: reference validity.  In every state reached by mutating the FuzzFile of
\* a parsed file, every NodeRef is < |nodes| and every RangeRef is < |ranges|.
C2_ReferenceValidity == pc \in FuzzPcs => RefsValid(ff)

\* C3: mutators never raise.  Every mutator call on a reachable FuzzFile
\* completes and returns true or false; none aborts.
C3_MutatorsNeverRaise == pc # "panicked"

\* C4: serialization termination.  On every FuzzFile a sequence of mutators
\* produces, serialize halts: the nesting of serialize_noderef calls never
\* exceeds |ranges| + 1, so the recursion is finite.
C4_SerializeHalts ==
    pc \in FuzzPcs =>
        LET st == serialize(ff, VecNew)
        IN  ~st.runaway /\ st.depth <= Len(ff.ranges) + 1

\* C4 witness: a mutated FuzzFile in which a range is reachable from itself,
\* so that the guard stopped an expansion, and whose serialization ended.
C4_Witness ==
    /\ pc = "fuzz"
    /\ lastOp \in {"SwapRanges", "DuplicateRootNode"}
    /\ \E r \in 1..Len(ff.ranges) : \E i \in 1..Len(ff.ranges[r]) :
          LET n == ff.ranges[r][i]
          IN  /\ n < Len(ff.nodes)
              /\ At(ff.nodes, n).tag \in {"Delim", "Range"}
              /\ At(ff.nodes, n).range = r - 1
    /\ LET st == serialize(ff, VecNew)
       IN  st.guarded > 0 /\ ~st.runaway /\ ~st.panic

\* C5: parser totality.  Every iteration of slurp's loop strictly shortens the
\* remainder, so slurp ends within |buf| iterations, and an empty input yields
\* an empty root and empty arenas.
C5_ParserTotality ==
    [][/\ (pc = "slurp" /\ steps' = steps + 1) =>
              (Len(remainder') < Len(remainder) /\ steps' <= Len(buf))
       /\ (pc' = "parsed" /\ buf = << >>) => parsed' = NoFile]_vars

\* C6: arena monotonicity.  No mutator call shortens nodes or ranges.
C6_ArenaMonotonic ==
    [][MutatorCall =>
          /\ Len(ff'.nodes) >= Len(ff.nodes)
          /\ Len(ff'.ranges) >= Len(ff.ranges)]_vars

\* C6 witness: both arenas have grown under mutation.
C6_Witness ==
    /\ pc = "fuzz"
    /\ iter >= 2
    /\ Len(ff.nodes) > Len(parsed.nodes)
    /\ Len(ff.ranges) > Len(parsed.ranges) + 1

\* C7: output-buffer contract.  For every capacity c, serializing a FuzzFile
\* into a slice of c bytes writes min(c, length of the Vec output) bytes, these
\* are the prefix of the Vec output, and the rest of the slice is untouched.
C7_OutputBuffer ==
    pc \in {"returned", "roundtrip_vec"} =>
        LET vec == serialize(ff, VecNew).out
        IN  \A c \in 0..MaxCap :
            LET sl == serialize(ff, SliceSerializerNew(c)).out
            IN  /\ bytes_written(sl) <= c
                /\ bytes_written(sl) = Min(c, Len(vec.data))
                /\ SubSeq(sl.slice, 1, bytes_written(sl)) = SubSeq(vec.data, 1, bytes_written(sl))
                /\ \A i \in (bytes_written(sl) + 1)..c : sl.slice[i] = "0"

\* C7 witness: a mutated FuzzFile whose Vec output is longer than the largest
\* slice, so that every slice is filled and truncates.
C7_Witness ==
    /\ pc = "returned"
    /\ result = "Some"
    /\ Len(SerializedVec(ff)) > MaxCap
    /\ bytes_written(serialize(ff, SliceSerializerNew(MaxCap)).out) = MaxCap

\* C8: no-op mutators change nothing.  When a mutator call returns false the
\* serialization of the FuzzFile is the same after the call as before it.
C8_FalseChangesNothing ==
    [][MutatorReturned(FALSE) => SerializedVec(ff') = SerializedVec(ff)]_vars

\* C8 witness: RandDelim returned false on a file that has a Delim node,
\* after an earlier call returned true.
C8_Witness ==
    /\ pc = "fuzz"
    /\ lastOp = "RandDelim"
    /\ Len(rets) >= 2
    /\ rets[Len(rets)] = FALSE
    /\ rets[1] = TRUE
    /\ \E n \in 1..Len(ff.nodes) : ff.nodes[n].tag = "Delim"

\* C9: the boolean a mutator returns is true if and only if root, nodes or
\* ranges of the FuzzFile differ after the call from before it.
C9_ReturnsWhetherChanged ==
    [][\A ret \in BOOLEAN :
          MutatorReturned(ret) => (ret <=> Content(ff') # Content(ff))]_vars

\* C10: driver batch rule.  fuzz_one starts from the parsed file, makes exactly
\* max_mutations calls, each of a mutator of valid_actions, and returns Some if
\* and only if one of them returned true; it returns None when max_mutations
\* is 0 or valid_actions is empty.
C10_BatchRule ==
    /\ (pc = "fuzz" /\ iter = 0) => Content(ff) = Content(FuzzFileNew(parsed))
    /\ (pc \in FuzzPcs /\ lastOp # "-") =>
          \E i \in 1..Len(config.valid_actions) : config.valid_actions[i] = lastOp
    /\ pc \in {"returned", "written"} =>
          /\ iter = config.max_mutations
          /\ Len(rets) = config.max_mutations
          /\ result \in {"Some", "None"}
          /\ result = "Some" <=> \E i \in 1..Len(rets) : rets[i]
          /\ (config.max_mutations = 0 \/ config.valid_actions = << >>) => result = "None"

\* C10 witness: a batch of MaxMutations calls in which a call returned true
\* and the last one returned false, and fuzz_one returned Some.
C10_Witness ==
    /\ pc = "returned"
    /\ result = "Some"
    /\ Len(rets) = MaxMutations
    /\ rets[Len(rets)] = FALSE
    /\ \E i \in 1..Len(rets) : rets[i]

\* The NodeRefs of the innermost open frame of a builder, or of root
Innermost(b) == IF b.stack = << >> THEN b.root ELSE b.stack[Len(b.stack)].range

\* The delimiter pairs of the grammar as (open, close)
DelimPairs(g) == {<<d.start_pattern, d.end_pattern>> : d \in
                     {GrammarDelims(g)[i] : i \in 1..Len(GrammarDelims(g))}}

\* A step of slurp's loop whose event is DelimEnd
DelimEndStep(m) ==
    /\ pc = "slurp" /\ steps' = steps + 1
    /\ m = scan_next(grammar, remainder)
    /\ m.kind = "DelimEnd"

\* C11: Delim matching.  When the scan matches a close pattern, the matched
\* pattern is the input slice at the closing position; if the top frame
\* expects that pattern the frame is popped and a Delim node with the frame's
\* open pattern, the frame's children and that close pattern is appended and
\* attached to the parent; otherwise (another frame on top, or no frame) the
\* stack is left alone and the close pattern is appended as a Token leaf.
\* Every Delim node of a parsed file carries a delimiter pair of the grammar.
C11_DelimMatching ==
    [][/\ \A m \in {scan_next(grammar, remainder)} : DelimEndStep(m) =>
             LET e == m.end_pattern
                 at == Len(m.prefix)
                 last == builder'.nodes[Len(builder'.nodes)]
                 noderef == Len(builder'.nodes) - 1
             IN  /\ e = SubSeq(remainder, at + 1, at + Len(e))
                 /\ Len(builder'.nodes) > Len(builder.nodes)
                 /\ Innermost(builder') # << >>
                 /\ Innermost(builder')[Len(Innermost(builder'))] = noderef
                 /\ IF builder.stack # << >> /\ builder.stack[Len(builder.stack)].end_pattern = e
                    THEN LET top == builder.stack[Len(builder.stack)]
                         IN  /\ builder'.stack = SubSeq(builder'.stack, 1, Len(builder.stack) - 1)
                             /\ Len(builder'.stack) = Len(builder.stack) - 1
                             /\ Len(builder'.ranges) = Len(builder.ranges) + 1
                             /\ last = NodeDelim(top.start_pattern, Len(builder.ranges), e)
                             /\ SubSeq(builder'.ranges[Len(builder'.ranges)], 1, Len(top.range))
                                   = top.range
                    ELSE /\ Len(builder'.stack) = Len(builder.stack)
                         /\ builder'.ranges = builder.ranges
                         /\ last = NodeToken(e)
       /\ pc' = "parsed" =>
             \A n \in 1..Len(parsed'.nodes) :
                parsed'.nodes[n].tag = "Delim" =>
                   <<parsed'.nodes[n].open, parsed'.nodes[n].close>> \in DelimPairs(grammar)]_vars

\* The whitespace patterns of the grammar
WhitespacePatterns(g) == {g.whitespace[i] : i \in 1..Len(g.whitespace)}

\* The positions of a buffer at which a whitespace pattern of the grammar starts
WhitespaceAt(g, b) ==
    {i \in 0..(Len(b) - 1) : \E p \in WhitespacePatterns(g) : StartsWith(From(b, i), p)}

\* A step of slurp's loop and its event
SlurpEvent(m) ==
    /\ pc = "slurp" /\ steps' = steps + 1
    /\ m = scan_next(grammar, remainder)

\* C12: whitespace patterns become their own tokens.  The scan does not pass
\* over an occurrence of a whitespace pattern of the grammar; an occurrence it
\* finds is appended as a Token equal to the pattern, after a Token for the
\* prefix when the prefix is not empty, both attached to the innermost frame;
\* with whitespace [" "] the input "1 2 3" parses into a root of exactly the
\* five Tokens "1", " ", "2", " ", "3".
C12_WhitespaceTokens ==
    [][/\ \A m \in {scan_next(grammar, remainder)} : SlurpEvent(m) =>
             /\ \A i \in WhitespaceAt(grammar, remainder) : Len(m.prefix) <= i
             /\ m.kind = "Tokenizer" =>
                   LET added == (IF m.prefix # << >> THEN <<NodeToken(m.prefix)>> ELSE << >>)
                                   \o <<NodeToken(m.token)>>
                       first == Len(builder.nodes)
                   IN  /\ m.token \in WhitespacePatterns(grammar)
                       /\ StartsWith(From(remainder, Len(m.prefix)), m.token)
                       /\ builder'.nodes = builder.nodes \o added
                       /\ Innermost(builder') =
                             Innermost(builder) \o [k \in 1..Len(added) |-> first + k - 1]
                       /\ Len(builder'.stack) = Len(builder.stack)
                       /\ builder'.ranges = builder.ranges
       /\ (pc' = "parsed" /\ grammar.whitespace = << <<" ">> >>
             /\ buf = <<"1", " ", "2", " ", "3">>) =>
             parsed' = [root |-> <<0, 1, 2, 3, 4>>,
                        nodes |-> <<NodeToken(<<"1">>), NodeToken(<<" ">>), NodeToken(<<"2">>),
                                    NodeToken(<<" ">>), NodeToken(<<"3">>)>>,
                        ranges |-> << >>]]_vars

Leaf(kind, bytes) == [kind |-> kind, bytes |-> bytes]

\* The leaves of a list of NodeRefs of an acyclic tree in serialization order:
\* a Token, and the open and the close pattern of a Delim node around the
\* leaves of its range
RECURSIVE LeavesOf(_, _)
LeavesOf(t, refs) ==
    IF refs = << >> THEN << >>
    ELSE LET node == At(t.nodes, Head(refs))
             here == CASE node.tag = "Token" -> <<Leaf("Token", node.bytes)>>
                       [] node.tag = "Delim" ->
                             <<Leaf("Open", node.open)>>
                                \o LeavesOf(t, At(t.ranges, node.range))
                                \o <<Leaf("Close", node.close)>>
                       [] node.tag = "Range" -> LeavesOf(t, At(t.ranges, node.range))
         IN  here \o LeavesOf(t, Tail(refs))

\* The leaves finish makes of the frames k..n of a stack: each frame's open
\* pattern as a Token followed by the frame's children
RECURSIVE FlushedLeaves(_, _)
FlushedLeaves(b, k) ==
    IF k > Len(b.stack) THEN << >>
    ELSE <<Leaf("Token", b.stack[k].start_pattern)>>
            \o LeavesOf(b, b.stack[k].range) \o FlushedLeaves(b, k + 1)

Example13 == <<"1", "<", "<", "2", "<", "<", "3", ">", ">", "4">>

\* C13 as stated: in the tree of "1<<2<<3>>4" the second "<<", the fourth
\* leaf, is a Token.
C13_SecondOpenIsToken ==
    (pc = "parsed" /\ grammar = GrammarDelim /\ buf = Example13) =>
        /\ Len(LeavesOf(parsed, parsed.root)) >= 4
        /\ LeavesOf(parsed, parsed.root)[4] = Leaf("Token", <<"<", "<">>)

\* C13, amended: unmatched open flushing.  At the end of input every frame
\* left on the stack is emitted as a Token for its open pattern followed by
\* its accumulated children, after what is already in root; in the tree of
\* "1<<2<<3>>4" the first "<<" is that Token and the second "<<" opens the
\* Delim node that holds "3".
C13_UnmatchedOpenFlushing ==
    [][(pc = "slurp" /\ pc' = "parsed") =>
          /\ LeavesOf(parsed', parsed'.root) =
                LeavesOf(builder, builder.root) \o FlushedLeaves(builder, 1)
          /\ Len(parsed'.nodes) = Len(builder.nodes) + Len(builder.stack)
          /\ parsed'.ranges = builder.ranges
          /\ (grammar = GrammarDelim /\ buf = Example13) =>
                parsed' = [root |-> <<0, 5, 1, 3, 4>>,
                           nodes |-> <<NodeToken(<<"1">>), NodeToken(<<"2">>),
                                       NodeToken(<<"3">>),
                                       NodeDelim(<<"<", "<">>, 0, <<">", ">">>),
                                       NodeToken(<<"4">>), NodeToken(<<"<", "<">>)>>,
                           ranges |-> <<(<<2>>)>>]]_vars

\* C13 witness: the parsed tree of "1<<2<<3>>4", whose second leaf is the
\* Token of the unmatched open and whose fourth leaf opens a Delim node.
C13_Witness ==
    /\ pc = "parsed" /\ grammar = GrammarDelim /\ buf = Example13
    /\ LeavesOf(parsed, parsed.root)[2] = Leaf("Token", <<"<", "<">>)
    /\ LeavesOf(parsed, parsed.root)[4] = Leaf("Open", <<"<", "<">>)

\* A call of the mutator m in fuzz_one's loop
Called(m) == MutatorCall /\ lastOp' = m

\* The indices (from 0) of the Delim nodes of a FuzzFile
DelimIndices(f) == {i \in 0..(Len(f.nodes) - 1) : At(f.nodes, i).tag = "Delim"}

\* The call returned the boolean ret
ReturnedValue(ret) == pc' = "fuzz" /\ iter' = iter + 1 /\ rets'[Len(rets')] = ret

\* The first call of a batch on the file "1<<2>>3" of the grammar [("<<", ">>")]
OnExample14 ==
    /\ grammar = GrammarDelim
    /\ buf = <<"1", "<", "<", "2", ">", ">", "3">>
    /\ iter = 0

\* C14: SwapDelim.  A call on a file without Delim node returns false and
\* changes nothing; any other call returns true and overwrites one Delim node
\* by the Delim with open and close exchanged and the same RangeRef, leaving
\* every other node, ranges and root as they were.  On "1<<2>>3" the result
\* serializes to "1>>2<<3".
C14_SwapDelim ==
    [][Called("SwapDelim") =>
          /\ DelimIndices(ff) = {} => ReturnedValue(FALSE) /\ Content(ff') = Content(ff)
          /\ DelimIndices(ff) # {} =>
                /\ ReturnedValue(TRUE)
                /\ ff'.root = ff.root /\ ff'.ranges = ff.ranges
                /\ \E i \in DelimIndices(ff) :
                      ff'.nodes = [ff.nodes EXCEPT ![i + 1] =
                                     NodeDelim(At(ff.nodes, i).close, At(ff.nodes, i).range,
                                               At(ff.nodes, i).open)]
          /\ OnExample14 =>
                SerializedVec(ff') = <<"1", ">", ">", "2", "<", "<", "3">>]_vars

\* C14 witness: SwapDelim was the one call on "1<<2>>3" and the file
\* serializes to "1>>2<<3".
C14_Witness ==
    /\ pc = "fuzz" /\ iter = 1 /\ lastOp = "SwapDelim"
    /\ grammar = GrammarDelim /\ buf = <<"1", "<", "<", "2", ">", ">", "3">>
    /\ SerializedVec(ff) = <<"1", ">", ">", "2", "<", "<", "3">>

\* C15: RemoveDelim.  A call on a file without Delim node returns false and
\* changes nothing; any other call returns true and overwrites one Delim node
\* by Range with the same RangeRef, leaving every other node, ranges and root
\* as they were.  On "1<<2>>3" the result serializes to "123".
C15_RemoveDelim ==
    [][Called("RemoveDelim") =>
          /\ DelimIndices(ff) = {} => ReturnedValue(FALSE) /\ Content(ff') = Content(ff)
          /\ DelimIndices(ff) # {} =>
                /\ ReturnedValue(TRUE)
                /\ ff'.root = ff.root /\ ff'.ranges = ff.ranges
                /\ \E i \in DelimIndices(ff) :
                      ff'.nodes = [ff.nodes EXCEPT ![i + 1] = NodeRange(At(ff.nodes, i).range)]
          /\ OnExample14 => SerializedVec(ff') = <<"1", "2", "3">>]_vars

\* C15 witness: RemoveDelim was the one call on "1<<2>>3" and the file
\* serializes to "123".
C15_Witness ==
    /\ pc = "fuzz" /\ lastOp = "RemoveDelim"
    /\ grammar = GrammarDelim /\ buf = <<"1", "<", "<", "2", ">", ">", "3">>
    /\ iter = 1
    /\ SerializedVec(ff) = <<"1", "2", "3">>

\* C16: DuplicateRange precondition.  With max_duplications < 2 a call
\* returns false and leaves the FuzzFile unchanged; with max_duplications >= 2
\* a call on a file with ranges extends one range to k + 1 copies of itself
\* for a k in [1, max_duplications), its length becoming the original
\* length times (k + 1), and leaves the rest unchanged.
C16_DuplicateRangePrecondition ==
    [][Called("DuplicateRange") =>
          /\ config.max_duplications < 2 =>
                ReturnedValue(FALSE) /\ Content(ff') = Content(ff)
          /\ (config.max_duplications >= 2 /\ ff.ranges # << >>) =>
                /\ ReturnedValue(TRUE)
                /\ ff'.root = ff.root /\ ff'.nodes = ff.nodes
                /\ \E r \in 1..Len(ff.ranges) :
                   \E k \in 1..(config.max_duplications - 1) :
                      /\ ff'.ranges = [ff.ranges EXCEPT ![r] = Repeat(@, k + 1)]
                      /\ Len(ff'.ranges[r]) = Len(ff.ranges[r]) * (k + 1)]_vars

\* C17: DuplicateRootNode.  A call on a file with fewer than two nodes returns
\* false and changes nothing; any other call returns true and, for two
\* distinct node indices src and dst, appends a clone of nodes[dst] as n',
\* appends the range [n', src] as r' and overwrites nodes[dst] by Range(r').
C17_DuplicateRootNode ==
    [][Called("DuplicateRootNode") =>
          /\ Len(ff.nodes) < 2 => ReturnedValue(FALSE) /\ Content(ff') = Content(ff)
          /\ Len(ff.nodes) >= 2 =>
                /\ ReturnedValue(TRUE)
                /\ ff'.root = ff.root
                /\ \E src, dst \in 0..(Len(ff.nodes) - 1) :
                      /\ src # dst
                      /\ ff'.nodes = [Append(ff.nodes, At(ff.nodes, dst))
                                        EXCEPT ![dst + 1] = NodeRange(Len(ff.ranges))]
                      /\ ff'.ranges = Append(ff.ranges, <<Len(ff.nodes), src>>)]_vars

\* C18: the value afl_fuzz_one returns.  It is 0 when out_buf is null or
\* out_len is 0, and 0 when the batch produced no mutation, the buffer then
\* being untouched; otherwise it is the number of bytes written, which is the
\* length of the variant's serialization cut to out_len, the buffer holding
\* that prefix of the serialization and nothing being written beyond it.
C18_AflFuzzOneReturn ==
    pc = "afl_returned" =>
        IF harness.out_buf_null \/ harness.out_len = 0
        THEN harness.ret = 0
        ELSE /\ out.kind = "Slice" /\ Len(out.slice) = harness.out_len
             /\ IF result = "None"
                THEN /\ harness.ret = 0
                     /\ out = SliceSerializerNew(harness.out_len)
                ELSE /\ harness.ret = Min(harness.out_len, Len(SerializedVec(ff)))
                     /\ harness.ret <= harness.out_len
                     /\ SubSeq(out.slice, 1, harness.ret)
                           = SubSeq(SerializedVec(ff), 1, harness.ret)
                     /\ \A i \in (harness.ret + 1)..harness.out_len : out.slice[i] = "0"

\* C18 witness: afl_fuzz_one returned out_len for a variant whose
\* serialization is longer than the buffer.
C18_Witness ==
    /\ pc = "afl_returned"
    /\ ~harness.out_buf_null
    /\ result = "Some"
    /\ harness.out_len > 1
    /\ harness.ret = harness.out_len
    /\ Len(SerializedVec(ff)) > harness.out_len

\* The pattern names no directory: it has at most one component
DirectoryMissing(s) == Len(Components(s)) < 2

\* The pattern names no file: it has no component or ends in "/", "." or ".."
FilenameMissing(s) ==
    Components(s) = << >> \/ Components(s)[Len(Components(s))].kind # "Normal"

HasMarker(f) == \E i \in 1..(Len(f) - 1) : f[i] = "{" /\ f[i + 1] = "}"

\* The filename component holds no "{}"
MarkerMissing(s) ==
    ~FilenameMissing(s) /\ ~HasMarker(Components(s)[Len(Components(s))].name)

\* f with its first "{}" replaced by the decimal digits of v
SubstFirst(f, v) ==
    LET i == CHOOSE i \in 1..(Len(f) - 1) :
                 /\ f[i] = "{" /\ f[i + 1] = "}"
                 /\ \A j \in 1..(i - 1) : ~(f[j] = "{" /\ f[j + 1] = "}")
    IN  SubSeq(f, 1, i - 1) \o to_string(v) \o SubSeq(f, i + 2, Len(f))

\* The position of the last separator of a path, 0 if it has none
LastSlash(s) ==
    IF \E i \in 1..Len(s) : s[i] = "/"
    THEN CHOOSE i \in 1..Len(s) : s[i] = "/" /\ \A j \in (i + 1)..Len(s) : s[j] # "/"
    ELSE 0

\* A pattern d/f whose directory text d ends in a component and whose f
\* holds a marker
PlainPattern(s) ==
    /\ LastSlash(s) > 1
    /\ HasMarker(From(s, LastSlash(s)))
    /\ LET d == SubSeq(s, 1, LastSlash(s) - 1)
       IN  SplitSegs(d)[Len(SplitSegs(d))] \notin {<< >>, <<".">>}

\* C19: output pattern.  from_path returns an error for a pattern without
\* directory component, without filename component or without "{}" in the
\* filename component ("out/name.ext"); for a pattern d/f it accepts, with(v)
\* is d joined with f in which the first "{}" alone is replaced by v:
\* "out/{}.ext" gives "out/0.ext" with 0 and "out/7.ext" with 7.
C19_OutputPattern ==
    pc \in {"pattern_ok", "pattern_err", "named"} =>
        LET s == output.pattern
            r == output.result[1]
        IN  /\ (DirectoryMissing(s) \/ FilenameMissing(s) \/ MarkerMissing(s)) => ~r.ok
            /\ s = PatternWithoutMarker => ~r.ok
            /\ PlainPattern(s) => r.ok
            /\ (pc = "named" /\ PlainPattern(s)) =>
                  output.path = SubSeq(s, 1, LastSlash(s))
                                   \o SubstFirst(From(s, LastSlash(s)), output.value)
            /\ (pc = "named" /\ s = PatternWithMarker /\ output.value = 0) =>
                  output.path = <<"o", "u", "t", "/", "0", ".", "e", "x", "t">>
            /\ (pc = "named" /\ s = PatternWithMarker /\ output.value = 7) =>
                  output.path = <<"o", "u", "t", "/", "7", ".", "e", "x", "t">>

\* The bytes of a list of NodeRefs when a range is expanded unless it is in
\* path, the set of the ranges under expansion at that place; a reference
\* outside the arenas yields the byte "!"
RECURSIVE PathSerialize(_, _, _)
PathSerialize(f, refs, path) ==
    IF refs = << >> THEN << >>
    ELSE LET inside(r) == IF r >= Len(f.ranges) THEN <<"!">>
                          ELSE IF r \in path THEN << >>
                          ELSE PathSerialize(f, At(f.ranges, r), path \cup {r})
             here == IF Head(refs) >= Len(f.nodes) THEN <<"!">>
                     ELSE LET node == At(f.nodes, Head(refs))
                          IN  CASE node.tag = "Token" -> node.bytes
                                [] node.tag = "Delim" ->
                                      node.open \o inside(node.range) \o node.close
                                [] node.tag = "Range" -> inside(node.range)
         IN  here \o PathSerialize(f, Tail(refs), path)

\* C20: serializer re-entrance guard.  The bytes serialize emits are those of
\* the traversal that expands a range exactly when it is not on the active
\* expansion path: a range on the path contributes nothing while a Delim node
\* referring to it still emits open and close, and a range is expanded again
\* wherever it is met off the path.  When serialize returns, every
\* have_serialized_range flag is false.
C20_ReentranceGuard ==
    pc \in FuzzPcs =>
        LET st == serialize(ff, VecNew)
        IN  ~st.panic =>
              /\ ~st.runaway
              /\ Written(st.out) = PathSerialize(ff, ff.root, {})
              /\ \A r \in 1..Len(ff.ranges) : ~st.have_serialized_range[r]

\* C20 witness: a serialization in which the guard kept a range from being
\* entered again and in which a range was expanded twice.
C20_Witness ==
    /\ pc = "fuzz"
    /\ LET st == serialize(ff, VecNew)
       IN  /\ ~st.panic /\ ~st.runaway
           /\ st.guarded > 0
           /\ \E r \in 1..Len(ff.ranges) : st.expanded[r] >= 2 /\ ff.ranges[r] # << >>

\* C21: close-without-matching-open policy.  On a DelimEnd event the top
\* frame is popped if and only if the close it expects is byte-equal to the
\* matched close; otherwise, with an empty stack or a top frame that expects
\* another close (whatever deeper frames expect), every frame stays on the
\* stack and the matched close is appended as a Token to the top frame, or to
\* root when the stack is empty.
C21_CloseWithoutOpen ==
    [][\A m \in {scan_next(grammar, remainder)} : DelimEndStep(m) =>
          LET e == m.end_pattern
              n == Len(builder.stack)
              expected == n > 0 /\ builder.stack[n].end_pattern = e
              popped == Len(builder'.stack) = n - 1
              sameFrames(k) ==
                  \A j \in 1..k :
                     /\ builder'.stack[j].start_pattern = builder.stack[j].start_pattern
                     /\ builder'.stack[j].end_pattern = builder.stack[j].end_pattern
          IN  /\ popped <=> expected
              /\ expected => sameFrames(n - 1)
              /\ ~expected =>
                    /\ Len(builder'.stack) = n
                    /\ sameFrames(n)
                    /\ \A j \in 1..(n - 1) : builder'.stack[j] = builder.stack[j]
                    /\ n > 0 => builder'.root = builder.root
                    /\ Len(builder'.nodes) > Len(builder.nodes)
                    /\ builder'.nodes[Len(builder'.nodes)] = NodeToken(e)
                    /\ Innermost(builder') # << >>
                    /\ Innermost(builder')[Len(Innermost(builder'))]
                          = Len(builder'.nodes) - 1]_vars

\* The rule order a grammar is read in: the rules of defs in their order, with
\* the whitespace patterns that are not rules of defs placed as whitespace
\* rules before the first breaker
RuleOrder(g) ==
    LET breakers == {d \in 1..Len(g.defs) : g.defs[d].kind = "Breaker"}
        fb == IF breakers = {} THEN Len(g.defs) + 1
              ELSE CHOOSE d \in breakers : \A e \in breakers : d <= e
        isRule(p) == \E d \in 1..Len(g.defs) :
                        g.defs[d].kind = "Tokenizer" /\ g.defs[d].start = p
        missing == SelectSeq(g.whitespace, LAMBDA p : ~isRule(p))
    IN  SubSeq(g.defs, 1, fb - 1)
          \o [i \in 1..Len(missing) |-> DefTokenizer(missing[i])]
          \o SubSeq(g.defs, fb, Len(g.defs))

\* A rule matches at position i of b; a breaker does not match at position 0
RuleMatchesAt(def, b, i) ==
    \/ StartsWith(From(b, i), def.start) /\ (def.kind = "Breaker" => i > 0)
    \/ def.kind = "Delim" /\ StartsWith(From(b, i), def.end)

\* C22: scan priority.  The event of one scan of the remainder is the match at
\* the smallest position at which a rule matches and, of the rules matching
\* there, of the first in grammar order (delimiter rules before breakers,
\* whitespace before breakers; the open pattern of a delimiter rule before its
\* close pattern); when no rule matches anywhere the whole remainder is one
\* Break token.
C22_ScanPriority ==
    [][\A m \in {scan_next(grammar, remainder)} : SlurpEvent(m) =>
          LET rules == RuleOrder(grammar)
              b == remainder
              matching(i) == {d \in 1..Len(rules) : RuleMatchesAt(rules[d], b, i)}
              positions == {i \in 0..(Len(b) - 1) : matching(i) # {}}
          IN  IF positions = {} THEN m = MatchBreak(b, << >>)
              ELSE LET i == CHOOSE i \in positions : \A j \in positions : i <= j
                       d == CHOOSE d \in matching(i) : \A e \in matching(i) : d <= e
                       def == rules[d]
                   IN  /\ m.prefix = Upto(b, i)
                       /\ def.kind = "Delim" /\ StartsWith(From(b, i), def.start) =>
                             /\ m.kind = "DelimStart"
                             /\ m.start_pattern = def.start /\ m.end_pattern = def.end
                             /\ m.rest = From(b, i + Len(def.start))
                       /\ def.kind = "Delim" /\ ~StartsWith(From(b, i), def.start) =>
                             /\ m.kind = "DelimEnd" /\ m.end_pattern = def.end
                             /\ m.rest = From(b, i + Len(def.end))
                       /\ def.kind = "Tokenizer" =>
                             /\ m.kind = "Tokenizer" /\ m.token = def.start
                             /\ m.rest = From(b, i + Len(def.start))
                       /\ def.kind = "Breaker" =>
                             m.kind = "Break" /\ m.rest = From(b, i)]_vars

\* The breaker patterns of the grammar
BreakerPatterns(g) ==
    {g.defs[d].start : d \in {e \in 1..Len(g.defs) : g.defs[e].kind = "Breaker"}}

\* A rule that is not a breaker matches at position 0 of b
OtherRuleAtStart(g, b) ==
    \E d \in 1..Len(g.defs) :
       g.defs[d].kind # "Breaker" /\ RuleMatchesAt(g.defs[d], b, 0)

\* A step of slurp's loop whose event is a breaker match (a Break that leaves
\* a rest)
BreakerStep(m) == SlurpEvent(m) /\ m.kind = "Break" /\ m.rest # << >>

\* What C23 says of the Break event itself: a breaker is matched only at a
\* position i > 0, the bytes before it are appended as one Token to the
\* innermost frame, the remainder goes on from the breaker, which is not
\* consumed; a Break event of a non-empty remainder never has an empty prefix;
\* with breaks [";"] the first token of "a;b" is "a".
BreakEvent ==
    /\ \A m \in {scan_next(grammar, remainder)} : BreakerStep(m) =>
          LET i == Len(m.prefix)
          IN  /\ i > 0
              /\ m.prefix = Upto(remainder, i)
              /\ \E p \in BreakerPatterns(grammar) : StartsWith(From(remainder, i), p)
              /\ \A j \in 1..(i - 1) : \A p \in BreakerPatterns(grammar) :
                    ~StartsWith(From(remainder, j), p)
              /\ builder'.nodes = Append(builder.nodes, NodeToken(m.prefix))
              /\ Innermost(builder') = Append(Innermost(builder), Len(builder.nodes))
              /\ remainder' = From(remainder, i)
    /\ \A m \in {scan_next(grammar, remainder)} :
          SlurpEvent(m) /\ m.kind = "Break" => m.prefix # << >>
    /\ pc' = "parsed" /\ grammar = GrammarBreaks /\ buf = <<"a", ";", "b">> =>
          /\ parsed'.root[1] = 0
          /\ parsed'.nodes[1] = NodeToken(<<"a">>)

\* C23 as stated: breaker handling, with the breaker never emitted as a token.
\* Besides the Break event above, the bytes of a matched breaker do not come
\* out as a Token of their own: the token that the scan of the rest yields is
\* not the matched breaker.
C23_BreakerNeverAToken ==
    [][/\ BreakEvent
       /\ \A m \in {scan_next(grammar, remainder)} : BreakerStep(m) =>
             \A p \in BreakerPatterns(grammar) :
                StartsWith(m.rest, p) => scan_next(grammar, m.rest).prefix # p]_vars

\* C23 amended: breaker handling.  Besides the Break event above, the Break
\* event leaves the breaker in the remainder and the breaker's bytes begin the
\* next token: a scan of a remainder that starts with a breaker pattern, where
\* no delimiter or whitespace rule matches, appends a Token that begins with
\* the first byte of the remainder (the breaker alone when the input ends or a
\* rule matches right after it).
C23_BreakerHandling ==
    [][/\ BreakEvent
       /\ \A m \in {scan_next(grammar, remainder)} :
             ( /\ SlurpEvent(m)
               /\ \E p \in BreakerPatterns(grammar) : p # << >> /\ StartsWith(remainder, p)
               /\ ~OtherRuleAtStart(grammar, remainder) ) =>
                /\ m.prefix # << >>
                /\ m.prefix[1] = remainder[1]
                /\ Len(builder'.nodes) > Len(builder.nodes)
                /\ builder'.nodes[Len(builder.nodes) + 1] = NodeToken(m.prefix)]_vars

C23_Witness ==
    /\ pc = "parsed" /\ grammar = GrammarBreaks /\ buf = <<"a", ";", "b">>
    /\ parsed.root = <<0, 1>>
    /\ parsed.nodes = <<NodeToken(<<"a">>), NodeToken(<<";", "b">>)>>

\* The indices (from 0) of the nodes of a FuzzFile that reference range r
ReferencesTo(f, r) ==
    {n \in 0..(Len(f.nodes) - 1) :
        At(f.nodes, n).tag \in {"Delim", "Range"} /\ At(f.nodes, n).range = r}

\* NestDelim on the Delim node at index i: one new last node
\* Delim(open, r, close), one new last range holding that node alone,
\* nodes[i] turned into Delim(open, r', close) and nothing else changed; on
\* the first call of a batch node i serializes as open open children close close
NestEffect(i) ==
    LET d == At(ff.nodes, i)
        n1 == Len(ff.nodes)
        r1 == Len(ff.ranges)
    IN  /\ ff'.root = ff.root
        /\ ff'.nodes = Append([ff.nodes EXCEPT ![i + 1] = NodeDelim(d.open, r1, d.close)],
                              NodeDelim(d.open, d.range, d.close))
        /\ ff'.ranges = Append(ff.ranges, <<n1>>)
        /\ iter = 0 =>
              PathSerialize(ff', <<i>>, {}) =
                 d.open \o d.open \o PathSerialize(ff, At(ff.ranges, d.range), {})
                        \o d.close \o d.close

\* C24 as stated: NestDelim effect, with the range r of the chosen node
\* referenced by more than one node after the call.
C24_NestDelimShares ==
    [][Called("NestDelim") /\ DelimIndices(ff) # {} =>
          /\ ReturnedValue(TRUE)
          /\ \E i \in DelimIndices(ff) :
                /\ NestEffect(i)
                /\ Cardinality(ReferencesTo(ff', At(ff.nodes, i).range)) > 1]_vars

\* C24 amended: NestDelim effect.  A call on a file with a Delim node returns
\* true and, for the chosen node (open, r, close) at index i, appends
\* Delim(open, r, close) as node n', appends the range [n'] as range r',
\* makes nodes[i] Delim(open, r', close) and changes nothing else, so that the
\* new node takes the place of nodes[i] among the nodes that reference r
\* (their number stays as it was), r' is referenced by nodes[i] alone, and
\* the region serializes as open open children close close.
C24_NestDelim ==
    [][Called("NestDelim") /\ DelimIndices(ff) # {} =>
          /\ ReturnedValue(TRUE)
          /\ \E i \in DelimIndices(ff) :
                LET r == At(ff.nodes, i).range
                IN  /\ NestEffect(i)
                    /\ ReferencesTo(ff', r) =
                          (ReferencesTo(ff, r) \ {i}) \cup {Len(ff.nodes)}
                    /\ ReferencesTo(ff', Len(ff.ranges)) = {i}
          /\ OnExample14 =>
                SerializedVec(ff') = <<"1", "<", "<", "<", "<", "2", ">", ">", ">", ">", "3">>]_vars

\* C24 witness: NestDelim was the one call on "1<<2>>3" and the file
\* serializes to "1<<<<2>>>>3".
C24_Witness ==
    /\ pc = "fuzz" /\ iter = 1 /\ lastOp = "NestDelim"
    /\ grammar = GrammarDelim /\ buf = <<"1", "<", "<", "2", ">", ">", "3">>
    /\ SerializedVec(ff) = <<"1", "<", "<", "<", "<", "2", ">", ">", ">", ">", "3">>
    /\ Cardinality(ReferencesTo(ff, 0)) = 1

\* The three handles of a FuzzFile
Handles == {"root", "nodes", "ranges"}

\* C25: copy-on-write isolation.  From the end of slurp on the ParsedFile
\* stays what slurp returned: no mutator call and no fuzz_one call changes its
\* root, nodes or ranges, and a handle of the FuzzFile whose content is not
\* the ParsedFile's is an owned copy.  Every fuzz_one call starts from the
\* content of the ParsedFile with three borrowed handles, whatever the call
\* before it did, and no mutator call changes the root sequence of the
\* FuzzFile or takes ownership of it.
C25_CopyOnWrite ==
    [][pc' \in FuzzPcs =>
          /\ parsed' = parsed
          /\ parsed' = ParsedFileOf(builder')
          /\ \A h \in Handles : ff'[h] # parsed'[h] => h \in ff'.owned
          /\ (pc # "fuzz" /\ pc' = "fuzz") =>
                Content(ff') = Content(parsed) /\ ff'.owned = {}
          /\ MutatorCall =>
                /\ ff'.root = ff.root /\ ff'.root = parsed.root
                /\ "root" \notin ff'.owned
                /\ \A h \in Handles : ff'[h] # ff[h] => h \in ff'.owned]_vars

\* C25 witness: a variant whose ranges are a changed, owned copy has been
\* written while its nodes are still the borrowed nodes of the ParsedFile,
\* and the ParsedFile is what slurp returned.
C25_Witness ==
    /\ pc = "written" /\ result = "Some"
    /\ ff.owned = {"ranges"}
    /\ ff.ranges # parsed.ranges
    /\ ff.nodes = parsed.nodes
    /\ out.data # buf
    /\ parsed = ParsedFileOf(builder)

\* The places of a ParsedFile that hold the NodeRef n: <<0, k>> for root[k],
\* <<r, k>> for the k-th entry of the r-th range
PlacesOf(p, n) ==
    {<<0, k>> : k \in {j \in 1..Len(p.root) : p.root[j] = n}}
      \cup UNION {{<<r, k>> : k \in {j \in 1..Len(p.ranges[r]) : p.ranges[r][j] = n}} :
                    r \in 1..Len(p.ranges)}

\* The ranges (from 0) that the Delim nodes of range r reference
RangesInside(p, r) ==
    {At(p.nodes, n).range : n \in {At(At(p.ranges, r), k - 1) : k \in
        {j \in 1..Len(At(p.ranges, r)) : At(p.nodes, At(At(p.ranges, r), j - 1)).tag = "Delim"}}}

\* The ranges reachable from the ranges of set in at most k further steps
RECURSIVE ReachableRanges(_, _, _)
ReachableRanges(p, set, k) ==
    IF k = 0 THEN set
    ELSE ReachableRanges(p, set \cup UNION {RangesInside(p, r) : r \in set}, k - 1)

\* C26: parsed tree shape.  The ParsedFile that slurp returns is a tree:
\* every NodeRef in root and the ranges is a node index and every node index
\* is held in exactly one place of root and the ranges; every range index is
\* referenced by exactly one Delim node, so there are as many ranges as Delim
\* nodes and no more ranges than nodes; no node is a Range node, no Token has
\* an empty payload, no range is reachable from itself, and the builder's
\* stack is empty at the end.
C26_ParsedTreeShape ==
    pc # "slurp" =>
       LET nodeIndices == 0..(Len(parsed.nodes) - 1)
           rangeIndices == 0..(Len(parsed.ranges) - 1)
           delims == {n \in nodeIndices : At(parsed.nodes, n).tag = "Delim"}
       IN  /\ \A k \in 1..Len(parsed.root) : parsed.root[k] \in nodeIndices
           /\ \A r \in 1..Len(parsed.ranges) : \A k \in 1..Len(parsed.ranges[r]) :
                 parsed.ranges[r][k] \in nodeIndices
           /\ \A n \in nodeIndices : Cardinality(PlacesOf(parsed, n)) = 1
           /\ \A n \in delims : At(parsed.nodes, n).range \in rangeIndices
           /\ \A r \in rangeIndices :
                 Cardinality({n \in delims : At(parsed.nodes, n).range = r}) = 1
           /\ Len(parsed.ranges) = Cardinality(delims)
           /\ Len(parsed.ranges) <= Len(parsed.nodes)
           /\ \A n \in nodeIndices :
                 /\ At(parsed.nodes, n).tag # "Range"
                 /\ At(parsed.nodes, n).tag = "Token" => At(parsed.nodes, n).bytes # << >>
           /\ \A r \in rangeIndices :
                 r \notin ReachableRanges(parsed, RangesInside(parsed, r), Len(parsed.ranges))
           /\ builder.stack = << >>
           /\ parsed = ParsedFileOf(builder)

\* C26 witness: a parsed file with a Delim node inside the range of another.
C26_Witness ==
    /\ pc = "parsed" /\ grammar = GrammarTwo
    /\ buf = <<"<", "a", ";", ">">>
    /\ Len(parsed.ranges) = 2
    /\ RangesInside(parsed, 1) = {0}
    /\ parsed.root = <<1>>

\* C27: harness call ordering.  In any sequence of host calls,
\* afl_parse_one enters slurp and returns 0 on a non-null non-empty input
\* only after afl_fuzz_init has returned, and then installs what slurp
\* returned; afl_fuzz_one enters fuzz_one and returns on a non-null
\* non-empty output buffer only after an afl_parse_one has returned 0; an
\* afl_parse_one rejected for a null or empty input returns 1 and leaves the
\* installed ParsedFile as it was, and no step of afl_fuzz_one changes the
\* installed ParsedFile.
C27_HarnessOrdering ==
    [][/\ (pc \in HostPcs /\ pc' = "slurp") => "afl_fuzz_init" \in harness.completed
       /\ (pc = "parsed" /\ pc' = "parse_returned") =>
             /\ "afl_fuzz_init" \in harness.completed
             /\ ~harness.in_buf_null /\ harness.in_len > 0
             /\ harness'.parse_ret = 0
             /\ harness'.PARSED_FILE = Some(ParsedFileOf(builder))
       /\ (pc \in HostPcs /\ pc' = "fuzz") => "afl_parse_one" \in harness.completed
       /\ (pc = "returned" /\ pc' = "afl_returned") =>
             /\ "afl_parse_one" \in harness.completed
             /\ ~harness.out_buf_null /\ harness.out_len > 0
       /\ (pc \in HostPcs /\ pc' = "parse_returned") =>
             /\ harness'.in_buf_null \/ harness'.in_len = 0
             /\ harness'.parse_ret = 1
             /\ harness'.PARSED_FILE = harness.PARSED_FILE
       /\ (pc \in {"fuzz", "returned"} \/ pc' \in {"fuzz", "afl_returned"}) =>
             harness'.PARSED_FILE = harness.PARSED_FILE]_vars

\* C27 witness: after afl_fuzz_init and an afl_parse_one that returned 0, an
\* afl_parse_one with a null or empty input has returned 1 and the installed
\* ParsedFile is still the one slurp returned.
C27_Witness ==
    /\ pc = "parse_returned"
    /\ harness.parse_ret = 1
    /\ harness.completed = {"afl_fuzz_init", "afl_parse_one"}
    /\ harness.PARSED_FILE = Some(parsed)
    /\ parsed.nodes # << >>

====
